---- MODULE Spec2Model ----
(***************************************************************************)
(* State-machine model of server/access-file.c: the HTTP endpoints         *)
(* /files/<token>/<name>, /blks/<token>/<blk> and /zip/<token>, their      *)
(* dispatchers (access_cb, access_blks_cb, access_zip_cb) and the four     *)
(* writer-driven streaming engines (write_data_cb, write_file_range_cb,    *)
(* write_block_data_cb, write_dir_data_cb) with their event callbacks.     *)
(*                                                                         *)
(* Scaling.  TLC integers are 32 bits wide and bodies are explicit byte    *)
(* sequences, so three program quantities are scaled down; every           *)
(* comparison and every arithmetic step of the code is kept:               *)
(*   BUFFER_SIZE   64 KiB chunk       -> 3 bytes                           *)
(*   CIPHER_BLOCK  16 byte AES block  -> 2 bytes                           *)
(*   guint64 / long long  64 bits     -> WORD_BITS = 8 bits                *)
(***************************************************************************)
EXTENDS Integers, Sequences, FiniteSets, TLC

(***************************************************************************)
(* Bounds of the model                                                     *)
(***************************************************************************)
NReq == 3               \* request slots (connections) on the event loop
MaxBlocks == 2          \* blocks per file
MaxBlockLen == 4        \* plaintext bytes per block
MaxZipSize == 7         \* bytes of an on-disk archive
MaxParseSize == 3       \* file sizes the range parser is exercised against
MaxRangeLen == 4        \* characters after "=" in a generated Range value

(***************************************************************************)
(* Program constants                                                       *)
(***************************************************************************)
BUFFER_SIZE == 3
CIPHER_BLOCK == 2
WORD_BITS == 8

U64 == 2 ^ WORD_BITS                 \* modulus of guint64 arithmetic
LLONG_MAX == 2 ^ (WORD_BITS - 1) - 1 \* strtoll saturates here
LLONG_MIN == 0 - 2 ^ (WORD_BITS - 1)

EVHTP_RES_OK == 200
EVHTP_RES_PARTIAL == 206
EVHTP_RES_NOTMOD == 304
EVHTP_RES_BADREQ == 400
EVHTP_RES_FORBIDDEN == 403
EVHTP_RES_RANGENOTSC == 416
EVHTP_RES_SERVERR == 500

Min(a, b) == IF a < b THEN a ELSE b
Max(a, b) == IF a > b THEN a ELSE b

\* assignment of a (signed) value to a guint64
ToU64(x) == ((x % U64) + U64) % U64

(***************************************************************************)
(* C strings: sequences of one-character strings; index Len(s)+1 is the    *)
(* terminating NUL.                                                        *)
(***************************************************************************)
DigitChars == <<"0", "1", "2", "3", "4", "5", "6", "7", "8", "9">>

IsDigit(c) == \E d \in 1..10 : DigitChars[d] = c

DigitVal(c) == (CHOOSE d \in 1..10 : DigitChars[d] = c) - 1

\* strchr: index of the first c in s, 0 for NULL
strchr(s, c) ==
    IF \E i \in 1..Len(s) : s[i] = c
    THEN CHOOSE i \in 1..Len(s) : s[i] = c /\ \A j \in 1..(i - 1) : s[j] # c
    ELSE 0

RECURSIVE SkipSpace(_, _)
SkipSpace(s, i) ==
    IF i <= Len(s) /\ s[i] = " " THEN SkipSpace(s, i + 1) ELSE i

RECURSIVE ScanDigits(_, _, _)
ScanDigits(s, i, acc) ==
    IF i <= Len(s) /\ IsDigit(s[i])
    THEN ScanDigits(s, i + 1, Min(acc * 10 + DigitVal(s[i]), LLONG_MAX + 1))
    ELSE [val |-> acc, endp |-> i]

\* strtoll(s + i - 1, &end_ptr, 10): skips white space, takes an optional
\* sign and decimal digits, saturates at LLONG_MIN / LLONG_MAX; with no
\* digits the value is 0 and end_ptr is the start of the scan.
strtoll(s, i) ==
    LET j == SkipSpace(s, i)
        neg == j <= Len(s) /\ s[j] = "-"
        k == IF j <= Len(s) /\ s[j] \in {"-", "+"} THEN j + 1 ELSE j
        d == ScanDigits(s, k, 0)
    IN  IF d.endp = k
        THEN [val |-> 0, endp |-> i]
        ELSE [val |-> IF neg THEN Max(0 - d.val, LLONG_MIN)
                             ELSE Min(d.val, LLONG_MAX),
              endp |-> d.endp]

\* decimal formatting of a non-negative number (printf "%llu")
RECURSIVE FormatU64(_)
FormatU64(n) ==
    IF n < 10 THEN <<DigitChars[n + 1]>>
    ELSE FormatU64(n \div 10) \o <<DigitChars[(n % 10) + 1]>>

(***************************************************************************)
(* parse_range_val: the value after '=' is one of -num, num-, num-num.     *)
(***************************************************************************)
RangeReject == [ok |-> FALSE, start |-> 0, end |-> 0]

\* the three modes: tmp is the text after '=', minus the index of its
\* first '-'; yields error, or start and end before clamping
ParseRangeFields(tmp, minus, fsize) ==
    LET NUL == Len(tmp) + 1
        bad == [error |-> TRUE, start |-> 0, end |-> 0]
        first == strtoll(tmp, 1)
        start0 == ToU64(first.val)
    IN  IF minus = 1
        THEN \* -num mode
             IF start0 = 0 THEN bad
             ELSE IF first.endp = NUL
             THEN [error |-> FALSE,
                   start |-> ToU64(start0 + fsize),
                   end |-> ToU64(fsize - 1)]
             ELSE bad
        ELSE IF minus = Len(tmp)
        THEN \* num- mode
             IF first.endp = minus
             THEN [error |-> FALSE, start |-> start0,
                   end |-> ToU64(fsize - 1)]
             ELSE bad
        ELSE \* num-num mode
             IF first.endp = minus
             THEN LET second == strtoll(tmp, minus + 1)
                  IN  IF second.endp # NUL THEN bad
                      ELSE [error |-> FALSE, start |-> start0,
                            end |-> ToU64(second.val)]
             ELSE bad

\* parse_range_val with the final "start > end" test left out
parse_range_val_unchecked(byte_ranges, fsize) ==
    LET tmp == SubSeq(byte_ranges, strchr(byte_ranges, "=") + 1, Len(byte_ranges))
        minus == strchr(tmp, "-")
    IN  IF minus = 0 THEN RangeReject
        ELSE
        LET r == ParseRangeFields(tmp, minus, fsize)
            end1 == IF r.end > ToU64(fsize - 1) THEN ToU64(fsize - 1) ELSE r.end
        IN  IF r.error THEN RangeReject
            ELSE [ok |-> TRUE, start |-> r.start, end |-> end1]

parse_range_val(byte_ranges, fsize) ==
    LET tmp == SubSeq(byte_ranges, strchr(byte_ranges, "=") + 1, Len(byte_ranges))
        minus == strchr(tmp, "-")
    IN  IF minus = 0 THEN RangeReject
        ELSE
        LET r == ParseRangeFields(tmp, minus, fsize)
            end1 == IF r.end > ToU64(fsize - 1) THEN ToU64(fsize - 1) ELSE r.end
        IN  IF r.error THEN RangeReject
            ELSE IF r.start > end1 THEN RangeReject
            ELSE [ok |-> TRUE, start |-> r.start, end |-> end1]

(***************************************************************************)
(* External collaborators: file objects, the block store, the cipher.      *)
(* A file object (Seafile) lists its blocks; block i holds plain[i] bytes  *)
(* of plaintext.  Block ids are the positions 1..n_blocks; id 0 and ids    *)
(* above n_blocks name blocks that are not part of the file.               *)
(***************************************************************************)
RECURSIVE SumSeq(_)
SumSeq(q) == IF Len(q) = 0 THEN 0 ELSE q[1] + SumSeq(Tail(q))

BlockLists == UNION {[1..n -> 0..MaxBlockLen] : n \in 0..MaxBlocks}

Files == {[plain |-> p, file_size |-> SumSeq(p)] : p \in BlockLists}

n_blocks(f) == Len(f.plain)

\* size of block i as stored (BlockMetadata.size): AES-CBC with PKCS
\* padding stores 1..CIPHER_BLOCK bytes more than the plaintext
StoredSize(enc, f, i) ==
    IF enc THEN CIPHER_BLOCK * ((f.plain[i] \div CIPHER_BLOCK) + 1)
    ELSE f.plain[i]

PlainByte(i, j) == 10 * i + j

\* byte j of block i as stored; a padding byte carries the padding length
StoredByte(enc, f, i, j) ==
    IF ~enc THEN PlainByte(i, j)
    ELSE IF j <= f.plain[i] THEN 100 + PlainByte(i, j)
    ELSE 900 + (StoredSize(enc, f, i) - f.plain[i])

StoredBytes(enc, f, i, from, to) ==
    [k \in 1..(to - from + 1) |-> StoredByte(enc, f, i, from + k - 1)]

DecryptByte(c) == c - 100

\* plaintext of the whole file, block after block
RECURSIVE PlainPrefix(_, _)
PlainPrefix(f, n) ==
    IF n = 0 THEN <<>>
    ELSE PlainPrefix(f, n - 1) \o [j \in 1..f.plain[n] |-> PlainByte(n, j)]

PlainFile(f) == PlainPrefix(f, n_blocks(f))

\* contents of the on-disk archive of a /zip request
ZipBytes(size) == [k \in 1..size |-> 50 + k]

\* seaf_block_manager_read_block: -1 on error, 0 at the end of the block,
\* otherwise some number of bytes up to the length asked for
ReadResults(left, len) ==
    {-1} \cup (IF left = 0 \/ len = 0 THEN {0} ELSE 1..Min(left, len))

\* EVP_DecryptUpdate: all complete cipher blocks are decrypted, except that
\* the last one is held back while the input is block aligned
DecryptUpdate(held, chunk) ==
    LET all == held \o chunk
        nout == IF Len(all) = 0 THEN 0
                ELSE CIPHER_BLOCK *
                     (((Len(all) + CIPHER_BLOCK - 1) \div CIPHER_BLOCK) - 1)
    IN  [out |-> [k \in 1..nout |-> DecryptByte(all[k])],
         held |-> SubSeq(all, nout + 1, Len(all))]

\* EVP_DecryptFinal_ex: needs exactly one held cipher block whose last byte
\* is a valid padding length; emits the block without its padding
DecryptFinal(held) ==
    IF Len(held) # CIPHER_BLOCK THEN [ok |-> FALSE, out |-> <<>>]
    ELSE LET pad == DecryptByte(held[CIPHER_BLOCK]) - 800
         IN  IF pad \in 1..CIPHER_BLOCK
             THEN [ok |-> TRUE,
                   out |-> [k \in 1..(CIPHER_BLOCK - pad) |-> DecryptByte(held[k])]]
             ELSE [ok |-> FALSE, out |-> <<>>]

\* a read through a pointer to freed memory: the old value or anything else
FreedRead(v) == {v, 0, U64 - 1}

(***************************************************************************)
(* State.  Every variable is indexed by the request slot: one request and  *)
(* its connection.                                                         *)
(***************************************************************************)
VARIABLES
    req,      \* the request as received and what its token resolves to
    pc,       \* where the request is in its life
    resp,     \* what has been sent to the client
    data,     \* the engine state (Send*Data), NoData when there is none
    bev,      \* the transport's callbacks (struct bufferevent)
    conn,     \* the connection: write-ready pending, request paused
    res,      \* what the request holds: acquired minus released
    stats,    \* statistics events emitted (send_statistic_msg)
    zipdel    \* zip_download_mgr_del_zip_progress calls for the token

vars == <<req, pc, resp, data, bev, conn, res, stats, zipdel>>

Reqs == 1..NReq

Ops == {"view", "download", "download-link", "downloadblks",
        "download-dir-link", "download-multi-link"}

FileOps == {"view", "download", "download-link"}

HeaderNames == {"Access-Control-Allow-Origin", "Content-Security-Policy",
                "Content-Length", "Content-Range", "Accept-Ranges",
                "Last-Modified", "Cache-Control", "Content-Type",
                "Content-Disposition", "X-Content-Type-Options"}

NoHeaders == [h \in HeaderNames |-> <<>>]

NoResp == [status |-> 0, started |-> FALSE, ended |-> FALSE,
           hdr |-> NoHeaders, errbody |-> <<>>, body |-> <<>>]

NoHandle == [blk |-> 0, pos |-> 0]

NoData == [kind |-> "none"]

\* the callbacks evhtp installed on the connection's bufferevent
EvhtpCallbacks == [readcb |-> "evhtp_readcb", writecb |-> "evhtp_writecb",
                   errorcb |-> "evhtp_eventcb", cbarg |-> "connection"]

FreedCallbacks == [readcb |-> "freed", writecb |-> "freed",
                   errorcb |-> "freed", cbarg |-> "freed"]

\* pending: a write-ready event is due; paused: evhtp_request_pause;
\* history: mode is the do_file / do_file_range call made for the request,
\* engine the engine installed, errcb the calls of evhtp's own error callback,
\* released the calls of free_send*_data, maxbuf the largest buffer
\* allocated or filled for the request, misuse the cipher calls made on a
\* transform that is not initialized or is already finalized, maxopen the
\* most block handles the request has had open at once, trace the calls
\* made by the callback that ran last for the request, in order
NoConn == [pending |-> FALSE, paused |-> FALSE, mode |-> "none",
           engine |-> "none", errcb |-> 0, released |-> 0, maxbuf |-> 0,
           misuse |-> 0, maxopen |-> 0, trace |-> <<>>, cipher |-> <<>>,
           stale |-> 0]

NoRes == [file |-> 0, crypt |-> 0, handle |-> 0, ctx |-> 0, zipfd |-> 0]

\* the view of one request slot that the handlers work on
View(r) == [req |-> req[r], pc |-> pc[r], resp |-> resp[r], data |-> data[r],
            bev |-> bev[r], conn |-> conn[r], res |-> res[r],
            stats |-> stats[r], zipdel |-> zipdel[r]]

\* a callback is entered for the request
Enter(r) == [View(r) EXCEPT !.conn.trace = <<>>]

\* the write callback is entered: the write-ready event is consumed
Tick(r) == [Enter(r) EXCEPT !.conn.pending = FALSE]

\* the engine state is one object that every installed engine works on
Apply_one_engine_state(r, s) ==
    /\ pc' = [pc EXCEPT ![r] = s.pc]
    /\ resp' = [resp EXCEPT ![r] = s.resp]
    /\ data' = [p \in Reqs |-> IF p = r \/ data[p] # NoData THEN s.data
                               ELSE data[p]]
    /\ bev' = [bev EXCEPT ![r] = s.bev]
    /\ conn' = [conn EXCEPT ![r] = s.conn]
    /\ res' = [res EXCEPT ![r] = s.res]
    /\ stats' = [stats EXCEPT ![r] = s.stats]
    /\ zipdel' = [zipdel EXCEPT ![r] = s.zipdel]
    /\ UNCHANGED req

Apply(r, s) ==
    /\ pc' = [pc EXCEPT ![r] = s.pc]
    /\ resp' = [resp EXCEPT ![r] = s.resp]
    /\ data' = [data EXCEPT ![r] = s.data]
    /\ bev' = [bev EXCEPT ![r] = s.bev]
    /\ conn' = [conn EXCEPT ![r] = s.conn]
    /\ res' = [res EXCEPT ![r] = s.res]
    /\ stats' = [stats EXCEPT ![r] = s.stats]
    /\ zipdel' = [zipdel EXCEPT ![r] = s.zipdel]
    /\ UNCHANGED req

\* the calls made on the decryption transform
CipherOps == {"init", "update", "final", "destroy"}

\* the callback running for the request makes the call e
Log(s, e) ==
    [s EXCEPT !.conn.trace = Append(@, e),
              !.conn.cipher = IF e \in CipherOps THEN Append(@, e) ELSE @]

\* a buffer of size bytes is allocated (stack array, malloc, evbuffer)
Alloc(s, size) == [s EXCEPT !.conn.maxbuf = IF size > @ THEN size ELSE @]

(***************************************************************************)
(* libevhtp / libevent primitives                                          *)
(***************************************************************************)
evhtp_headers_add_header(s, name, val) ==
    Log([s EXCEPT !.resp.hdr[name] = val], "header")

\* a complete reply: status line, headers, buffer_out as body, terminator
evhtp_send_reply(s, code) ==
    Log([s EXCEPT !.resp.status = code, !.resp.started = TRUE,
                  !.resp.ended = TRUE, !.pc = "replied"], "reply")

\* status line and headers only; their drain makes the socket write-ready
evhtp_send_reply_start(s, code) ==
    Log([s EXCEPT !.resp.status = code, !.resp.started = TRUE,
                  !.conn.pending = TRUE], "start")

evhtp_send_reply_end(s) ==
    Log([s EXCEPT !.resp.ended = TRUE, !.pc = "finished"], "end")

evhtp_request_pause(s) == Log([s EXCEPT !.conn.paused = TRUE], "pause")

evhtp_request_resume(s) == Log([s EXCEPT !.conn.paused = FALSE], "resume")

\* the write callback runs again once the bytes added here are drained;
\* adding nothing schedules nothing
bufferevent_write(s, bytes) ==
    Log([s EXCEPT !.resp.body = @ \o bytes,
                  !.conn.pending = (Len(bytes) > 0)], "write")

bufferevent_setcb(s, readcb, writecb, errorcb, cbarg) ==
    Log([s EXCEPT !.bev = [readcb |-> readcb, writecb |-> writecb,
                           errorcb |-> errorcb, cbarg |-> cbarg]], "setcb")

evhtp_connection_free(s) ==
    Log([s EXCEPT !.pc = "freed", !.bev = FreedCallbacks,
                  !.conn.pending = FALSE], "connection_free")

send_statistic_msg(s, oper, bytes) ==
    Log([s EXCEPT !.stats = Append(@, [oper |-> oper, bytes |-> bytes])],
        "statistic")

(***************************************************************************)
(* Block manager and resource ledger                                       *)
(***************************************************************************)
Acquire(s, what) == [s EXCEPT !.res[what] = @ + 1]

Release(s, what) == [s EXCEPT !.res[what] = @ - 1]

\* a field of the file object is read (file_size, n_blocks, blk_sha1s):
\* the read is stale when the request holds no reference to the object
FileRead(s) ==
    [s EXCEPT !.conn.stale = IF s.res.file >= 1 THEN @ ELSE @ + 1]

\* seaf_block_manager_open_block succeeding: data->handle is the handle
seaf_block_manager_open_block(s, blk) ==
    Log(Acquire([s EXCEPT !.data.handle = [blk |-> blk, pos |-> 0],
                          !.conn.maxopen = IF s.res.handle + 1 > @
                                           THEN s.res.handle + 1 ELSE @],
                "handle"),
        "open")

\* the handle is dropped from the engine state without being closed
close_block_forgotten(s) == Log(s, "close")

\* seaf_block_manager_close_block + seaf_block_manager_block_handle_free
close_block(s) == Log(Release(s, "handle"), "close")

\* seafile_decrypt_init succeeding, and "data->enc_init = TRUE"
\* data->enc_init is set and no transform was set up
seafile_decrypt_init_skipped(s) ==
    [s EXCEPT !.data.ctx = <<>>, !.data.enc_init = TRUE,
              !.data.ctx_done = FALSE]

seafile_decrypt_init(s) ==
    Log(Acquire([s EXCEPT !.data.ctx = <<>>, !.data.enc_init = TRUE,
                          !.data.ctx_done = FALSE], "ctx"), "init")

\* EVP_DecryptUpdate or EVP_DecryptFinal_ex is called on data->ctx: the
\* transform has to exist and not to be finalized yet
CipherCall(s, e) ==
    Log([s EXCEPT !.conn.misuse = IF s.res.ctx = 1 /\ ~s.data.ctx_done
                                  THEN @ ELSE @ + 1], e)

\* EVP_CIPHER_CTX_free (data->ctx): the transform has to exist
EVP_CIPHER_CTX_free(s) ==
    Log(Release([s EXCEPT !.conn.misuse = IF s.res.ctx = 1 THEN @ ELSE @ + 1],
                "ctx"),
        "destroy")

\* g_free (data) at the end of free_send*_data
FreeData(s) ==
    Log([s EXCEPT !.data = NoData, !.conn.released = @ + 1], "release")

(***************************************************************************)
(* free_send*_data                                                         *)
(***************************************************************************)
free_sendblock_data(s) ==
    LET s1 == IF s.data.handle # NoHandle THEN close_block(s) ELSE s
    IN  FreeData(s1)

\* free_sendfile_data destroying the transform of every encrypted file,
\* initialized or not
free_sendfile_data_unguarded(s) ==
    LET s1 == IF s.data.handle # NoHandle THEN close_block(s) ELSE s
        s2 == IF s1.data.crypt THEN EVP_CIPHER_CTX_free(s1) ELSE s1
        s3 == Release(s2, "file")
        s4 == IF s3.data.crypt THEN Release(s3, "crypt") ELSE s3
    IN  FreeData(s4)

free_sendfile_data(s) ==
    LET s1 == IF s.data.handle # NoHandle THEN close_block(s) ELSE s
        s2 == IF s1.data.enc_init THEN EVP_CIPHER_CTX_free(s1) ELSE s1
        s3 == Release(s2, "file")                    \* seafile_unref
        s4 == IF s3.data.crypt THEN Release(s3, "crypt") ELSE s3
    IN  FreeData(s4)

free_send_file_range_data(s) ==
    LET s1 == IF s.data.handle # NoHandle THEN close_block(s) ELSE s
        s2 == Release(s1, "file")                    \* seafile_unref
    IN  FreeData(s2)

\* free_senddir_data leaving the progress record in place
free_senddir_data_keep(s) ==
    LET s1 == Release(s, "zipfd")
    IN  FreeData(s1)

free_senddir_data(s) ==
    LET s1 == Release(s, "zipfd")                    \* close (data->zipfd)
        s2 == [s1 EXCEPT !.zipdel = @ + 1]
    IN  FreeData(s2)

(***************************************************************************)
(* The write callbacks.  Each is the set of states in which one            *)
(* invocation can leave the request, over all results of the block         *)
(* manager, the cipher and the archive file.                               *)
(***************************************************************************)
\* the end of the stream leaving the engine's callbacks on the transport
RestoreCallbacks_skipped(s) == Log(s, "restore")

\* "Recover evhtp's callbacks"
RestoreCallbacks(s) == Log([s EXCEPT !.bev = s.data.saved], "restore")

\* a field of the engine state is read or written; after the socket write
\* of the invocation that is a use of state the write may have released
Touch(s) ==
    IF \E i \in 1..Len(s.conn.trace) : s.conn.trace[i] = "write"
    THEN Log(s, "touch") ELSE s

block_err(s) == free_sendblock_data(evhtp_connection_free(s))

write_block_data_cb(s0) ==
    LET s == Alloc(s0, BUFFER_SIZE)                   \* char buf[1024 * 64]
        d == s.data
        opened == IF d.handle # NoHandle THEN s
                  ELSE [seaf_block_manager_open_block(s, d.block_id)
                            EXCEPT !.data.remain = d.bsize]
        h == opened.data.handle
        left == StoredSize(s.req.encrypted, s.req.file, h.blk) - h.pos
        AfterRead(n) ==
            IF n < 0 THEN block_err(opened)
            ELSE IF n = 0
            THEN LET s1 == close_block([opened EXCEPT !.data.handle = NoHandle])
                     s2 == RestoreCallbacks(s1)
                     s3 == evhtp_request_resume(s2)
                     s4 == evhtp_send_reply_end(s3)
                     s5 == send_statistic_msg(s4, "web-file-download", d.bsize)
                 IN  free_sendblock_data(s5)
            ELSE bufferevent_write(
                     [opened EXCEPT !.data.remain = @ - n,
                                    !.data.handle.pos = @ + n],
                     StoredBytes(s.req.encrypted, s.req.file, h.blk,
                                 h.pos + 1, h.pos + n))
    IN  (IF d.handle = NoHandle THEN {block_err(s)} ELSE {})
        \cup {AfterRead(n) : n \in ReadResults(left, BUFFER_SIZE)}

\* the connection is freed and the engine state is left allocated
sendfile_err_unreleased(s) == evhtp_connection_free(s)

sendfile_err(s) == free_sendfile_data(evhtp_connection_free(s))

\* sendfile_finish emitting the event whatever the token's op
sendfile_finish_always(s) ==
    LET s1 == RestoreCallbacks(s)
        s2 == evhtp_request_resume(s1)
        s3 == evhtp_send_reply_end(s2)
        s4 == send_statistic_msg(s3,
                  IF s3.data.token_type = "download-link"
                  THEN "link-file-download" ELSE "web-file-download",
                  s3.req.file.file_size)
    IN  free_sendfile_data(s4)

\* end of the last block of a whole-file response
sendfile_finish(s) ==
    LET s1 == RestoreCallbacks(FileRead(s))
        s2 == evhtp_request_resume(s1)
        s3 == evhtp_send_reply_end(s2)
        s4 == IF s3.data.token_type # "view"
              THEN send_statistic_msg(s3,
                       IF s3.data.token_type = "download-link"
                       THEN "link-file-download" ELSE "web-file-download",
                       s3.req.file.file_size)
              ELSE s3
    IN  free_sendfile_data(s4)

\* sendfile_data writing one byte less than was read
sendfile_data_short(s, n) ==
    LET d == s.data
        h == d.handle
        chunk == StoredBytes(s.req.encrypted, s.req.file, h.blk,
                             h.pos + 1, h.pos + n - 1)
        s1 == [s EXCEPT !.data.remain = @ - n, !.data.handle.pos = @ + n]
    IN  IF ~d.crypt THEN {bufferevent_write(s1, chunk)}
        ELSE LET u == DecryptUpdate(d.ctx, chunk)
                 a1 == CipherCall(Alloc(s1, n + CIPHER_BLOCK), "update")
                                                  \* g_new (char, n + 16)
                 s2 == Alloc([a1 EXCEPT !.data.ctx = u.held], Len(u.out))
                 f2 == CipherCall(s2, "final")
                 fin == DecryptFinal(u.held)
             IN  {sendfile_err(a1)}
                 \cup (IF s1.data.remain = 0
                       THEN {sendfile_err(f2)}
                            \cup (IF fin.ok
                                  THEN {bufferevent_write(
                                            Alloc([f2 EXCEPT !.data.ctx = <<>>,
                                                             !.data.ctx_done = TRUE],
                                                  Len(u.out) + Len(fin.out)),
                                            u.out \o fin.out)}
                                  ELSE {})
                       ELSE {bufferevent_write(s2, u.out)})

\* "OK, we've got some data to send": n bytes of the open block were read
sendfile_data(s, n) ==
    LET d == s.data
        h == d.handle
        chunk == StoredBytes(s.req.encrypted, s.req.file, h.blk,
                             h.pos + 1, h.pos + n)
        s1 == [s EXCEPT !.data.remain = @ - n, !.data.handle.pos = @ + n]
    IN  IF ~d.crypt THEN {bufferevent_write(s1, chunk)}
        ELSE LET u == DecryptUpdate(d.ctx, chunk)
                 a1 == CipherCall(Alloc(s1, n + CIPHER_BLOCK), "update")
                                                  \* g_new (char, n + 16)
                 s2 == Alloc([a1 EXCEPT !.data.ctx = u.held], Len(u.out))
                 f2 == CipherCall(s2, "final")
                 fin == DecryptFinal(u.held)
             IN  {sendfile_err(a1)}                     \* EVP_DecryptUpdate fails
                 \cup (IF s1.data.remain = 0
                       THEN {sendfile_err(f2)}          \* EVP_DecryptFinal_ex fails
                            \cup (IF fin.ok
                                  THEN {bufferevent_write(
                                            Alloc([f2 EXCEPT !.data.ctx = <<>>,
                                                             !.data.ctx_done = TRUE],
                                                  Len(u.out) + Len(fin.out)),
                                            u.out \o fin.out)}
                                  ELSE {})
                       ELSE {bufferevent_write(s2, u.out)})

\* the block just read to its end is not the last one only from the
\* third block on
LastBlock_early(d, f) == d.idx >= n_blocks(f) - 2

\* "if (data->idx == data->file->n_blocks - 1)"
LastBlock(d, f) == d.idx = n_blocks(f) - 1

RECURSIVE write_data_next(_)
write_data_next(s) ==
    LET d == s.data
        f == s.req.file
        enc == s.req.encrypted
        blk == d.idx + 1                     \* file->blk_sha1s[data->idx]
        s1 == seaf_block_manager_open_block(s, blk)
        s2 == [s1 EXCEPT !.data.remain = StoredSize(enc, f, blk)]
        s3 == IF d.crypt THEN seafile_decrypt_init(s2) ELSE s2
        failed == IF d.handle # NoHandle THEN {}
                  ELSE {sendfile_err(Log(s, "open_failed")),
                        sendfile_err(Log(s1, "stat_failed"))}
                       \cup (IF d.crypt
                             THEN {sendfile_err(Log(s2, "init_failed"))}
                             ELSE {})
        t == IF d.handle # NoHandle THEN s ELSE s3
        h == t.data.handle
        left == StoredSize(enc, f, h.blk) - h.pos
        AfterRead(n) ==
            IF n < 0 THEN {sendfile_err(t)}
            ELSE IF n = 0
            THEN LET c1 == close_block([t EXCEPT !.data.handle = NoHandle])
                     c2 == IF d.crypt
                           THEN [EVP_CIPHER_CTX_free(c1)
                                     EXCEPT !.data.enc_init = FALSE,
                                            !.data.ctx = <<>>]
                           ELSE c1
                 IN  IF LastBlock(d, f) THEN {sendfile_finish(c2)}
                     ELSE write_data_next([c2 EXCEPT !.data.idx = @ + 1])
            ELSE sendfile_data(t, n)
    IN  failed \cup UNION {AfterRead(n) : n \in ReadResults(left, BUFFER_SIZE)}

write_data_cb(s) == write_data_next(FileRead(Alloc(s, BUFFER_SIZE)))
                                              \* char buf[1024 * 64]

\* get_start_block_handle, the loop: the first block i (0-based) with
\* start < tolsize + size(i); i = n_blocks when start is beyond the file
RECURSIVE FindStartBlock(_, _, _, _, _)
FindStartBlock(enc, f, start, i, tolsize) ==
    IF i >= n_blocks(f) THEN [i |-> i, tolsize |-> tolsize]
    ELSE IF start < tolsize + StoredSize(enc, f, i + 1)
    THEN [i |-> i, tolsize |-> tolsize]
    ELSE FindStartBlock(enc, f, start, i + 1,
                        tolsize + StoredSize(enc, f, i + 1))

\* get_start_block_handle without "trim the offset in a block"
get_start_block_handle_untrimmed(s) ==
    LET f == s.req.file
        enc == s.req.encrypted
        start == s.data.start_off
        at == FindStartBlock(enc, f, start, 0, 0)
        s1 == seaf_block_manager_open_block(s, at.i + 1)
    IN  {s}
        \cup (IF at.i = n_blocks(f) THEN {}
              ELSE {[s1 EXCEPT !.data.blk_idx = at.i]})

\* get_start_block_handle: the states after the call; data.handle is
\* NoHandle where it returned NULL
get_start_block_handle(s) ==
    LET f == s.req.file
        enc == s.req.encrypted
        start == s.data.start_off
        at == FindStartBlock(enc, f, start, 0, 0)
        skip == start - at.tolsize
        s1 == seaf_block_manager_open_block(s, at.i + 1)
        tmp == Alloc(s1, skip)               \* malloc (start - tolsize)
        AfterSkip(n) ==
            IF n # skip
            THEN close_block([tmp EXCEPT !.data.handle = NoHandle])
            ELSE [tmp EXCEPT !.data.handle.pos = skip,
                             !.data.blk_idx = at.i]
    IN  {s}                                   \* a stat or the open fails
        \cup (IF at.i = n_blocks(f) THEN {}
              ELSE IF start > at.tolsize
              THEN {AfterSkip(n) :
                       n \in ReadResults(StoredSize(enc, f, at.i + 1), skip)}
              ELSE {[s1 EXCEPT !.data.blk_idx = at.i]})

range_err(s) == free_send_file_range_data(evhtp_connection_free(s))

\* finish_file_range_request without the release of the engine state
finish_file_range_request_unreleased(s) ==
    LET s1 == RestoreCallbacks(s)
        s2 == evhtp_request_resume(s1)
    IN  evhtp_send_reply_end(s2)

finish_file_range_request(s) ==
    LET s1 == RestoreCallbacks(s)
        s2 == evhtp_request_resume(s1)
        s3 == evhtp_send_reply_end(s2)
    IN  free_send_file_range_data(s3)

\* a statistics event for every completed range
RangeReachesEnd_always(d, n, f) == TRUE

\* "if (data->start_off + n >= data->file->file_size)", n the bytes of the
\* chunk that completes the range
RangeReachesEnd(d, n, f) == d.start_off + n >= f.file_size

RECURSIVE write_file_range_next(_)
write_file_range_next(s) ==
    LET d == s.data
        f == s.req.file
        enc == s.req.encrypted
        past == d.blk_idx >= n_blocks(f)   \* blk_sha1s indexed past its end
        t == IF d.handle # NoHandle THEN s
             ELSE seaf_block_manager_open_block(s, d.blk_idx + 1)
        h == t.data.handle
        left == StoredSize(enc, f, h.blk) - h.pos
        bsize == IF d.range_remain < BUFFER_SIZE THEN d.range_remain
                 ELSE BUFFER_SIZE
        AfterRead(n) ==
            IF n < 0 THEN {range_err(t)}
            ELSE IF n = 0
            THEN write_file_range_next(
                     close_block([t EXCEPT !.data.handle = NoHandle,
                                           !.data.blk_idx = @ + 1]))
            ELSE LET w == Touch(bufferevent_write(
                              [t EXCEPT !.data.range_remain = @ - n,
                                        !.data.handle.pos = @ + n],
                              StoredBytes(enc, f, h.blk, h.pos + 1, h.pos + n)))
                                        \* "if (data->range_remain == 0)"
                 IN  IF w.data.range_remain = 0
                     THEN {finish_file_range_request(
                               IF RangeReachesEnd(d, n, f)
                               THEN send_statistic_msg(FileRead(w),
                                        IF d.token_type = "download-link"
                                        THEN "link-file-download"
                                        ELSE "web-file-download",
                                        f.file_size)
                               ELSE FileRead(w))}
                     ELSE {w}
    IN  IF past THEN {range_err(Log(s, "past_end"))}
        ELSE (IF d.handle = NoHandle THEN {range_err(s)} ELSE {})  \* open fails
             \cup UNION {AfterRead(n) : n \in ReadResults(left, bsize)}

write_file_range_cb(s0) ==
    LET s == FileRead(Alloc(s0, BUFFER_SIZE))         \* char buf[BUFFER_SIZE]
    IN  IF s.data.blk_idx = -1
        THEN UNION {IF g.data.handle = NoHandle THEN {range_err(g)}
                    ELSE write_file_range_next(g) :
                    g \in get_start_block_handle(s)}
        ELSE write_file_range_next(s)

\* readn on the archive: -1 on error, else all of the next BUFFER_SIZE
\* bytes that the file still has
write_dir_data_cb(s0) ==
    LET s == Alloc(s0, BUFFER_SIZE)                   \* char buf[64 * 1024]
        d == s.data
        AfterRead(n) ==
            IF n < 0
            THEN free_senddir_data(evhtp_connection_free(s))
            ELSE IF n > 0
            THEN LET w == bufferevent_write(
                              [s EXCEPT !.data.pos = @ + n],
                              SubSeq(ZipBytes(s.req.zip.size),
                                     d.pos + 1, d.pos + n))
                     w1 == Touch([w EXCEPT !.data.remain = @ - n])
                 IN  IF w1.data.remain = 0
                     THEN LET s1 == RestoreCallbacks(w1)
                              s2 == evhtp_request_resume(s1)
                              s3 == evhtp_send_reply_end(s2)
                              s4 == send_statistic_msg(s3,
                                        IF d.token_type \in {"download-dir-link",
                                                             "download-multi-link"}
                                        THEN "link-file-download"
                                        ELSE "web-file-download",
                                        d.total_size)
                          IN  free_senddir_data(s4)
                     ELSE w1
            ELSE s
    IN  {AfterRead(n) : n \in {-1, Min(BUFFER_SIZE, s.req.zip.size - d.pos)}}

(***************************************************************************)
(* The event callbacks: the saved (evhtp) error callback runs first and    *)
(* frees the connection, then the engine state is released.                *)
(***************************************************************************)
\* data->saved_event_cb (bev, events, data->saved_cb_arg): the callback
\* and the argument found in the snapshot are the call that is made
saved_event_cb(s) ==
    evhtp_connection_free(
        Log(Log([s EXCEPT !.conn.errcb = @ + 1], s.data.saved.errorcb),
            s.data.saved.cbarg))

my_block_event_cb(s) == free_sendblock_data(saved_event_cb(s))

\* the engine state released first, the saved callback called after
my_event_cb_release_first(s) ==
    LET f == free_sendfile_data(s)
    IN  evhtp_connection_free(
            Log(Log([f EXCEPT !.conn.errcb = @ + 1], s.data.saved.errorcb),
                s.data.saved.cbarg))

my_event_cb(s) == free_sendfile_data(saved_event_cb(s))

file_range_event_cb(s) == free_send_file_range_data(saved_event_cb(s))

my_dir_event_cb(s) == free_senddir_data(saved_event_cb(s))

(***************************************************************************)
(* Content type and disposition.  A file name and a User-Agent value are   *)
(* C strings; a Content-Disposition value is the triple of its disposition *)
(* type, the form of its filename parameter and the name.                  *)
(***************************************************************************)
ftmap ==
    << [suffix |-> <<"t", "x", "t">>,
        type |-> "text/plain"],
       [suffix |-> <<"d", "o", "c">>,
        type |-> "application/vnd.ms-word"],
       [suffix |-> <<"d", "o", "c", "x">>,
        type |-> "application/vnd.openxmlformats-officedocument.wordprocessingml.document"],
       [suffix |-> <<"p", "p", "t">>,
        type |-> "application/vnd.ms-powerpoint"],
       [suffix |-> <<"p", "p", "t", "x">>,
        type |-> "application/vnd.openxmlformats-officedocument.presentationml.presentation"],
       [suffix |-> <<"x", "l", "s">>,
        type |-> "application/vnd.ms-excel"],
       [suffix |-> <<"x", "l", "s", "x">>,
        type |-> "application/vnd.openxmlformats-officedocument.spreadsheetml.sheet"],
       [suffix |-> <<"p", "d", "f">>,
        type |-> "application/pdf"],
       [suffix |-> <<"z", "i", "p">>,
        type |-> "application/zip"],
       [suffix |-> <<"m", "p", "3">>,
        type |-> "audio/mp3"],
       [suffix |-> <<"m", "p", "e", "g">>,
        type |-> "video/mpeg"],
       [suffix |-> <<"m", "p", "4">>,
        type |-> "video/mp4"],
       [suffix |-> <<"j", "p", "g">>,
        type |-> "image/jpeg"],
       [suffix |-> <<"J", "P", "G">>,
        type |-> "image/jpeg"],
       [suffix |-> <<"j", "p", "e", "g">>,
        type |-> "image/jpeg"],
       [suffix |-> <<"J", "P", "E", "G">>,
        type |-> "image/jpeg"],
       [suffix |-> <<"p", "n", "g">>,
        type |-> "image/png"],
       [suffix |-> <<"P", "N", "G">>,
        type |-> "image/png"],
       [suffix |-> <<"g", "i", "f">>,
        type |-> "image/gif"],
       [suffix |-> <<"G", "I", "F">>,
        type |-> "image/gif"],
       [suffix |-> <<"s", "v", "g">>,
        type |-> "image/svg+xml"],
       [suffix |-> <<"S", "V", "G">>,
        type |-> "image/svg+xml"] >>

\* strrchr: index of the last c in s, 0 for NULL
strrchr(s, c) ==
    IF \E i \in 1..Len(s) : s[i] = c
    THEN CHOOSE i \in 1..Len(s) :
             s[i] = c /\ \A j \in (i + 1)..Len(s) : s[j] # c
    ELSE 0

\* the type of the first table entry whose suffix is the text after the
\* last '.', "NULL" when there is no '.' or no such entry
parse_content_type(filename) ==
    LET dot == strrchr(filename, ".")
        p == SubSeq(filename, dot + 1, Len(filename))
        hits == {i \in 1..Len(ftmap) : ftmap[i].suffix = p}
    IN  IF dot = 0 \/ hits = {} THEN "NULL"
        ELSE ftmap[CHOOSE i \in hits : \A j \in hits : i <= j].type

\* strstr (type, "text"): of the table's types only text/plain has it
HasText(type) == type = "text/plain"

\* the Content-Type value of a /files response
ContentTypeValue(type) ==
    IF type = "NULL" THEN <<"application/octet-stream">>
    ELSE IF HasText(type) THEN <<type, "charset=gbk">>
    ELSE <<type>>

UpperChars == <<"A", "B", "C", "D", "E", "F", "G", "H", "I", "J", "K", "L", "M",
                "N", "O", "P", "Q", "R", "S", "T", "U", "V", "W", "X", "Y", "Z">>

LowerChars == <<"a", "b", "c", "d", "e", "f", "g", "h", "i", "j", "k", "l", "m",
                "n", "o", "p", "q", "r", "s", "t", "u", "v", "w", "x", "y", "z">>

g_string_ascii_down(s) ==
    [i \in 1..Len(s) |->
        IF \E k \in 1..26 : UpperChars[k] = s[i]
        THEN LowerChars[CHOOSE k \in 1..26 : UpperChars[k] = s[i]]
        ELSE s[i]]

\* g_strrstr (haystack, needle) != NULL
g_strrstr(haystack, needle) ==
    \E i \in 1..(Len(haystack) - Len(needle) + 1) :
        SubSeq(haystack, i, i + Len(needle) - 1) = needle

\* an absent User-Agent header is the empty value here: both give FALSE
test_firefox(q) ==
    IF q.user_agent = <<>> THEN FALSE
    ELSE g_strrstr(g_string_ascii_down(q.user_agent),
                   <<"f", "i", "r", "e", "f", "o", "x">>)

\* the Content-Disposition value do_file builds
FileDisposition(q) ==
    IF q.op = "download" \/ q.op = "download-link"
    THEN <<"attachment", "filename*=utf-8", q.filename>>
    ELSE IF test_firefox(q)
    THEN <<"inline", "filename*=utf-8", q.filename>>
    ELSE <<"inline", "filename=", q.filename>>

set_resp_disposition(s) ==
    LET q == s.req
    IN  evhtp_headers_add_header(s, "Content-Disposition",
            IF q.op = "download"
            THEN IF test_firefox(q)
                 THEN <<"attachment", "filename*=utf-8", q.filename>>
                 ELSE <<"attachment", "filename=", q.filename>>
            ELSE IF test_firefox(q)
                 THEN <<"inline", "filename*=utf-8", q.filename>>
                 ELSE <<"inline", "filename=", q.filename>>)

\* "if (g_strcmp0 (type, "image/jpg") != 0)"
add_nosniff(s, type) ==
    IF type # "image/jpg"
    THEN evhtp_headers_add_header(s, "X-Content-Type-Options", <<"nosniff">>)
    ELSE s

(***************************************************************************)
(* The dispatchers.  do_* return the set of [ret, s]: the return value     *)
(* and the state at return.                                                *)
(***************************************************************************)
\* "We need to overwrite evhtp's callback functions ...": the tail shared
\* by the four do_* functions
\* the response start sent first, the engine installed after it
InstallEngine_start_first(s, d, writecb, errorcb, code) ==
    LET s0 == evhtp_send_reply_start(s, code)
        s1 == Log([s0 EXCEPT !.data = [d EXCEPT !.saved = s.bev],
                             !.conn.engine = d.kind], "capture")
        s2 == bufferevent_setcb(s1, "NULL", writecb, errorcb, "data")
    IN  evhtp_request_pause(s2)

InstallEngine(s, d, writecb, errorcb, code) ==
    LET s1 == Log([s EXCEPT !.data = [d EXCEPT !.saved = s.bev],
                            !.conn.engine = d.kind], "capture")
        s2 == bufferevent_setcb(s1, "NULL", writecb, errorcb, "data")
        s3 == evhtp_request_pause(s2)
    IN  evhtp_send_reply_start(s3, code)

do_file(s, crypt_key) ==
    LET q == s.req
        s1 == Acquire([s EXCEPT !.conn.mode = "whole"], "file")
                                              \* seaf_fs_manager_get_seafile
        s2 == IF crypt_key THEN Acquire(s1, "crypt") ELSE s1
        s3 == evhtp_headers_add_header(FileRead(s2),
                                       "Access-Control-Allow-Origin", <<"*">>)
        s4 == evhtp_headers_add_header(s3, "Content-Security-Policy", <<"sandbox">>)
        type == parse_content_type(q.filename)
        t1 == evhtp_headers_add_header(s4, "Content-Type", ContentTypeValue(type))
        t2 == evhtp_headers_add_header(t1, "Content-Length", <<q.file.file_size>>)
        t3 == evhtp_headers_add_header(t2, "Content-Disposition",
                                       FileDisposition(q))
        s5 == add_nosniff(t3, type)
    IN  {[ret |-> -1, s |-> [s EXCEPT !.conn.mode = "whole"]]}  \* file == NULL
        \cup
        {IF q.method = "HEAD"
         THEN [ret |-> 0, s |-> evhtp_send_reply(s5, EVHTP_RES_OK)]
         ELSE IF n_blocks(q.file) = 0
         THEN [ret |-> 0,
               s |-> Release(evhtp_send_reply(s5, EVHTP_RES_OK), "file")]
         ELSE [ret |-> 0,
               s |-> InstallEngine(s5,
                        [kind |-> "file", crypt |-> crypt_key,
                         enc_init |-> FALSE, ctx |-> <<>>, ctx_done |-> FALSE,
                         handle |-> NoHandle, remain |-> 0, idx |-> 0,
                         token_type |-> q.op, saved |-> EvhtpCallbacks],
                        "write_data_cb", "my_event_cb", EVHTP_RES_OK)]}

do_file_range(s) ==
    LET q == s.req
        f == q.file
        s1 == FileRead(Acquire([s EXCEPT !.conn.mode = "range"], "file"))
                       \* seaf_fs_manager_get_seafile, "file->n_blocks == 0"
        rng == parse_range_val(q.range, f.file_size)
        h1 == evhtp_headers_add_header(s1, "Accept-Ranges", <<"bytes">>)
        h2 == evhtp_headers_add_header(h1, "Content-Security-Policy", <<"sandbox">>)
        type == parse_content_type(q.filename)
        t1 == evhtp_headers_add_header(h2, "Content-Type", ContentTypeValue(type))
        h3 == evhtp_headers_add_header(t1, "Content-Length",
                                       <<ToU64(rng.end - rng.start + 1)>>)
        t2 == evhtp_headers_add_header(h3, "Content-Range",
                  <<"bytes", rng.start, rng.end, f.file_size>>)
        h4 == add_nosniff(set_resp_disposition(t2), type)
    IN  {[ret |-> -1, s |-> [s EXCEPT !.conn.mode = "range"]]}  \* file == NULL
        \cup
        (IF n_blocks(f) = 0
         THEN {[ret |-> 0,
                s |-> Release(evhtp_send_reply(s1, EVHTP_RES_OK), "file")]}
         ELSE IF ~rng.ok
         THEN \* the file is unref'd, then file->file_size is read
              {[ret |-> 0,
                s |-> evhtp_send_reply(
                          evhtp_headers_add_header(
                              FileRead(Release(s1, "file")),
                              "Content-Range", <<"bytes */", v>>),
                          EVHTP_RES_RANGENOTSC)] :
               v \in FreedRead(f.file_size)}
         ELSE {[ret |-> 0,
                s |-> InstallEngine(h4,
                         [kind |-> "range", handle |-> NoHandle,
                          blk_idx |-> -1, start_off |-> rng.start,
                          range_remain |-> ToU64(rng.end - rng.start + 1),
                          token_type |-> q.op, saved |-> EvhtpCallbacks],
                         "write_file_range_cb", "file_range_event_cb",
                         EVHTP_RES_PARTIAL)]})

\* do_block taking the size from the file object instead of the block's
\* metadata
do_block_file_length(s) ==
    LET q == s.req
        s1 == Acquire(s, "file")
        listed == q.blkid \in 1..n_blocks(q.file)
        s2 == Release(s1, "file")
        bsize == q.file.file_size
        h1 == evhtp_headers_add_header(s2, "Access-Control-Allow-Origin", <<"*">>)
        c1 == evhtp_headers_add_header(h1, "Content-Disposition",
                  <<"attachment",
                    IF test_firefox(q) THEN "filename*=utf-8" ELSE "filename=",
                    q.blkid>>)
        h2 == evhtp_headers_add_header(c1, "Content-Length", <<bsize>>)
    IN  {[ret |-> -1, s |-> s],
         [ret |-> 0, s |-> evhtp_send_reply(s2, EVHTP_RES_BADREQ)]}
        \cup
        (IF listed
         THEN {[ret |-> 0,
                s |-> InstallEngine(h2,
                         [kind |-> "block", block_id |-> q.blkid,
                          handle |-> NoHandle, bsize |-> bsize, remain |-> 0,
                          saved |-> EvhtpCallbacks],
                         "write_block_data_cb", "my_block_event_cb",
                         EVHTP_RES_OK)]}
         ELSE {})

do_block(s) ==
    LET q == s.req
        s1 == Acquire(s, "file")              \* seaf_fs_manager_get_seafile
        listed == q.blkid \in 1..n_blocks(q.file)
        s2 == Release(FileRead(s1), "file")   \* the loop, then seafile_unref
        bsize == StoredSize(q.encrypted, q.file, q.blkid)
        h1 == evhtp_headers_add_header(s2, "Access-Control-Allow-Origin", <<"*">>)
        c1 == evhtp_headers_add_header(h1, "Content-Disposition",
                  <<"attachment",
                    IF test_firefox(q) THEN "filename*=utf-8" ELSE "filename=",
                    q.blkid>>)
        h2 == evhtp_headers_add_header(c1, "Content-Length", <<bsize>>)
    IN  {[ret |-> -1, s |-> s],               \* file == NULL
         \* not in the list, or in the list and the stat fails
         [ret |-> 0, s |-> evhtp_send_reply(s2, EVHTP_RES_BADREQ)]}
        \cup
        (IF listed
         THEN {[ret |-> 0,
                s |-> InstallEngine(h2,
                         [kind |-> "block", block_id |-> q.blkid,
                          handle |-> NoHandle, bsize |-> bsize, remain |-> 0,
                          saved |-> EvhtpCallbacks],
                         "write_block_data_cb", "my_block_event_cb",
                         EVHTP_RES_OK)]}
         ELSE {})

start_download_zip_file(s) ==
    LET q == s.req
        zipname == IF q.zip.payload = "dir_name" THEN "dir_name"
                   ELSE "documents-export-date"
        t1 == evhtp_headers_add_header(s, "Content-Type", <<"application/zip">>)
        t2 == evhtp_headers_add_header(t1, "Content-Length", <<q.zip.size>>)
        h1 == evhtp_headers_add_header(t2, "Content-Disposition",
                  <<"attachment", "filename=", <<zipname, ".zip">>>>)
        s1 == Acquire(h1, "zipfd")            \* g_open
    IN  {[ret |-> -1, s |-> s],               \* seaf_stat fails
         [ret |-> -1, s |-> h1],              \* g_open fails
         [ret |-> 0,
          s |-> InstallEngine(s1,
                   [kind |-> "dir", remain |-> q.zip.size,
                    total_size |-> q.zip.size, pos |-> 0,
                    token_type |-> q.op, saved |-> EvhtpCallbacks],
                   "write_dir_data_cb", "my_dir_event_cb", EVHTP_RES_OK)]}

\* can_use_cached_content
can_use_cached_content(s) ==
    IF s.req.ims
    THEN [cached |-> TRUE, s |-> evhtp_send_reply(s, EVHTP_RES_NOTMOD)]
    ELSE [cached |-> FALSE,
          s |-> evhtp_headers_add_header(
                    evhtp_headers_add_header(s, "Last-Modified", <<"now">>),
                    "Cache-Control", <<"max-age=3600">>)]

\* evbuffer_add_printf (req->buffer_out, "%s\n", error); evhtp_send_reply
reply_error(s, error, code) ==
    evhtp_send_reply([s EXCEPT !.resp.errbody = <<error, "\n">>], code)

\* the same with error == NULL: "%s" of a null pointer prints "(null)" or
\* faults, depending on the C library
reply_null_error(s, code) ==
    {reply_error(s, "(null)", code), [s EXCEPT !.pc = "crashed"]}

\* the operation kinds a /files token may carry
FileOpAllowed_any(q) == TRUE

FileOpAllowed(q) == q.op \in {"view", "download", "download-link"}

\* the operation kind a /blks token must carry
BlksOpAllowed_any(q) == TRUE

BlksOpAllowed(q) == q.op = "downloadblks"

\* byte-range mode is used for a Range header on an unencrypted repository
UseRangeMode_any_repo(q) == q.range # <<>>

UseRangeMode(q) == ~q.encrypted /\ q.range # <<>>

access_cb(s) ==
    LET q == s.req
        c == can_use_cached_content(s)
        s1 == c.s
    IN  IF ~q.url_ok THEN {reply_error(s, "Invalid URL", EVHTP_RES_BADREQ)}
        ELSE IF ~q.token_found
        THEN {reply_error(s, "Access token not found", EVHTP_RES_FORBIDDEN)}
        ELSE IF ~FileOpAllowed(q)
        THEN {reply_error(s, "Operation does not match access token.",
                          EVHTP_RES_FORBIDDEN)}
        ELSE IF c.cached THEN {s1}
        ELSE {reply_error(s1, "Bad repo id\n", EVHTP_RES_BADREQ),
              reply_error(s1, "Invalid file id\n", EVHTP_RES_BADREQ)}
             \cup (IF q.encrypted
                   THEN {reply_error(s1,
                            "Repo is encrypted. Please provide password to view it.",
                            EVHTP_RES_BADREQ)}
                   ELSE {})
             \cup {IF o.ret < 0
                   THEN reply_error(o.s, "Internal server error\n",
                                    EVHTP_RES_SERVERR)
                   ELSE o.s :
                   o \in IF UseRangeMode(q)
                         THEN do_file_range(s1)
                         ELSE do_file(s1, q.encrypted)}

access_blks_cb(s) ==
    LET q == s.req
        c == can_use_cached_content(s)
        s1 == c.s
    IN  IF ~q.url_ok THEN {reply_error(s, "Invalid URL", EVHTP_RES_BADREQ)}
        ELSE IF ~q.token_found
        THEN {reply_error(s, "Access token not found", EVHTP_RES_FORBIDDEN)}
        ELSE IF c.cached THEN {s1}
        ELSE {reply_error(s1, "Bad repo id\n", EVHTP_RES_BADREQ),
              reply_error(s1, "Invalid file id\n", EVHTP_RES_BADREQ)}
             \cup (IF BlksOpAllowed(q)
                   THEN UNION {IF o.ret < 0
                               THEN reply_null_error(o.s, EVHTP_RES_SERVERR)
                               ELSE {o.s} : o \in do_block(s1)}
                   ELSE {s1})

\* the 304 answer of access_zip_cb without the call that cleans the
\* progress record
access_zip_cb_cached_keeps(s) ==
    LET q == s.req
        c == can_use_cached_content(s)
    IN  IF ~q.url_ok THEN {reply_error(s, "Invalid URL\n", EVHTP_RES_BADREQ)}
        ELSE IF ~q.token_found
        THEN {reply_error(s, "Access token not found\n", EVHTP_RES_FORBIDDEN)}
        ELSE IF q.zip.payload \notin {"dir_name", "file_list"}
        THEN {s}
        ELSE {s}
             \cup (IF c.cached
                   THEN {c.s}
                   ELSE {o.s : o \in start_download_zip_file(c.s)})

access_zip_cb(s) ==
    LET q == s.req
        c == can_use_cached_content(s)
    IN  IF ~q.url_ok THEN {reply_error(s, "Invalid URL\n", EVHTP_RES_BADREQ)}
        ELSE IF ~q.token_found
        THEN {reply_error(s, "Access token not found\n", EVHTP_RES_FORBIDDEN)}
        ELSE IF q.zip.payload \notin {"dir_name", "file_list"}
        THEN {s}             \* error_code is set, error stays NULL: no reply
        ELSE {s}             \* no zip file path: likewise
             \cup (IF c.cached
                   THEN {[c.s EXCEPT !.zipdel = @ + 1]}
                   ELSE {o.s : o \in start_download_zip_file(c.s)})

\* the state in which a dispatcher leaves the request
Returned(s) ==
    IF s.pc # "new" THEN s
    ELSE [s EXCEPT !.pc = IF s.data.kind # "none" THEN "streaming"
                          ELSE "noreply"]

(***************************************************************************)
(* Requests                                                                *)
(***************************************************************************)
BaseReq == [endpoint |-> "files", url_ok |-> TRUE, token_found |-> TRUE,
            op |-> "download", ims |-> FALSE, method |-> "GET",
            range |-> <<>>, encrypted |-> FALSE,
            filename |-> <<"f">>, user_agent |-> <<>>,
            file |-> [plain |-> <<2, 1>>, file_size |-> 3],
            blkid |-> 0, zip |-> [payload |-> "dir_name", size |-> 0]]

NoReq == [BaseReq EXCEPT !.endpoint = "none"]

\* a Range header: "bytes=" followed by the value
RangeHeader(v) == <<"b", "y", "t", "e", "s", "=">> \o v

RangeFromTo(a, b) == RangeHeader(FormatU64(a) \o <<"-">> \o FormatU64(b))

RangeFrom(a) == RangeHeader(FormatU64(a) \o <<"-">>)

RangeLast(n) == RangeHeader(<<"-">> \o FormatU64(n))

MalformedRanges ==
    {RangeHeader(<<"1">>),                                \* no '-'
     RangeHeader(<<"0", "-", "1", "x">>),                 \* trailing garbage
     RangeHeader(<<"0", "-", "0", ",", "1", "-", "1">>),  \* two ranges
     RangeHeader(<<"-", "1", ",", "0", "-">>)}

RangesFor(f) ==
    {<<>>}
    \cup {RangeFromTo(a, b) : a \in 0..f.file_size, b \in 0..f.file_size}
    \cup {RangeFrom(a) : a \in 0..f.file_size}
    \cup {RangeLast(n) : n \in 0..(f.file_size + 1)}
    \cup MalformedRanges

ZipPayloads == {"null", "badjson", "neither", "dir_name", "file_list"}

\* a request slot before its dispatcher has run
InitSlots(rq) ==
    /\ req = rq
    /\ pc = [r \in Reqs |-> IF rq[r].endpoint = "none" THEN "absent" ELSE "new"]
    /\ resp = [r \in Reqs |-> NoResp]
    /\ data = [r \in Reqs |-> NoData]
    /\ bev = [r \in Reqs |-> EvhtpCallbacks]
    /\ conn = [r \in Reqs |-> NoConn]
    /\ res = [r \in Reqs |-> NoRes]
    /\ stats = [r \in Reqs |-> <<>>]
    /\ zipdel = [r \in Reqs |-> 0]

\* one request has arrived, in slot 1
Arrives(q) == InitSlots([r \in Reqs |-> IF r = 1 THEN q ELSE NoReq])

\* requests that differ in what the prelude looks at
PreludeRequests ==
    \E e \in {"files", "blks", "zip"}, u \in BOOLEAN, t \in BOOLEAN,
       o \in Ops, i \in BOOLEAN, z \in ZipPayloads,
       rg \in {<<>>, RangeFromTo(0, 0)} :
        Arrives([BaseReq EXCEPT !.endpoint = e, !.url_ok = u,
                                !.token_found = t, !.op = o, !.ims = i,
                                !.zip.payload = z, !.range = rg, !.blkid = 1])

\* /files requests on every file, with every Range value where the
\* repository is unencrypted
FileRequests ==
    \E f \in Files, o \in FileOps, m \in {"GET", "HEAD"} :
        \/ \E rg \in RangesFor(f) :
               Arrives([BaseReq EXCEPT !.op = o, !.method = m,
                                       !.encrypted = FALSE,
                                       !.file = f, !.range = rg])
        \/ \E rg \in {<<>>, RangeFrom(0)} :
               Arrives([BaseReq EXCEPT !.op = o, !.method = m,
                                       !.encrypted = TRUE,
                                       !.file = f, !.range = rg])

BlockRequests ==
    \E e \in BOOLEAN, f \in Files, b \in 0..(MaxBlocks + 1) :
        Arrives([BaseReq EXCEPT !.endpoint = "blks", !.op = "downloadblks",
                                !.encrypted = e, !.file = f, !.blkid = b])

ZipRequests ==
    \E o \in {"download-dir-link", "download-multi-link", "download"},
       z \in {"dir_name", "file_list"}, n \in 0..MaxZipSize :
        Arrives([BaseReq EXCEPT !.endpoint = "zip", !.op = o,
                                !.zip = [payload |-> z, size |-> n]])

\* file names with and without a suffix of the type table
FileNames == {<<"f">>, <<"a", ".", "t", "x", "t">>, <<"a", ".", "b", ".", "P", "N", "G">>,
              <<"p", ".", "j", "p", "g">>, <<"p", ".", "x">>}

\* User-Agent values: absent, naming Firefox in some case, not naming it
UserAgents == {<<>>, <<"F", "i", "r", "e", "f", "o", "x">>,
               <<"x", " ", "F", "I", "R", "E", "F", "O", "X", "/", "1">>,
               <<"C", "h", "r", "o", "m", "e">>,
               <<"f", "i", "r", "e", " ", "f", "o", "x">>}

\* /files and /blks requests that differ in what the response headers are
\* made from: the op, the file name, the User-Agent, a Range or none
HeaderRequests ==
    \E o \in FileOps, name \in FileNames, ua \in UserAgents :
        \/ \E rg \in {<<>>, RangeFromTo(0, 1)} :
               Arrives([BaseReq EXCEPT !.op = o, !.filename = name,
                                       !.user_agent = ua, !.range = rg])
        \/ Arrives([BaseReq EXCEPT !.endpoint = "blks", !.op = "downloadblks",
                                   !.user_agent = ua, !.blkid = 1])

Init ==
    \/ PreludeRequests \/ FileRequests \/ BlockRequests \/ ZipRequests
    \/ HeaderRequests

(***************************************************************************)
(* Actions: the dispatcher of a new request, one write-ready tick of an    *)
(* installed engine, the transport's error event on an installed engine.   *)
(***************************************************************************)
AccessCb(r) ==
    /\ pc[r] = "new"
    /\ req[r].endpoint = "files"
    /\ \E o \in access_cb(Enter(r)) : Apply(r, Returned(o))

AccessBlksCb(r) ==
    /\ pc[r] = "new"
    /\ req[r].endpoint = "blks"
    /\ \E o \in access_blks_cb(Enter(r)) : Apply(r, Returned(o))

AccessZipCb(r) ==
    /\ pc[r] = "new"
    /\ req[r].endpoint = "zip"
    /\ \E o \in access_zip_cb(Enter(r)) : Apply(r, Returned(o))

WriteDataCb(r) ==
    /\ pc[r] = "streaming"
    /\ conn[r].pending
    /\ bev[r].writecb = "write_data_cb"
    /\ \E o \in write_data_cb(Tick(r)) : Apply(r, o)

WriteFileRangeCb(r) ==
    /\ pc[r] = "streaming"
    /\ conn[r].pending
    /\ bev[r].writecb = "write_file_range_cb"
    /\ \E o \in write_file_range_cb(Tick(r)) : Apply(r, o)

WriteBlockDataCb(r) ==
    /\ pc[r] = "streaming"
    /\ conn[r].pending
    /\ bev[r].writecb = "write_block_data_cb"
    /\ \E o \in write_block_data_cb(Tick(r)) : Apply(r, o)

WriteDirDataCb(r) ==
    /\ pc[r] = "streaming"
    /\ conn[r].pending
    /\ bev[r].writecb = "write_dir_data_cb"
    /\ \E o \in write_dir_data_cb(Tick(r)) : Apply(r, o)

MyEventCb(r) ==
    /\ pc[r] = "streaming"
    /\ bev[r].errorcb = "my_event_cb"
    /\ Apply(r, my_event_cb(Enter(r)))

FileRangeEventCb(r) ==
    /\ pc[r] = "streaming"
    /\ bev[r].errorcb = "file_range_event_cb"
    /\ Apply(r, file_range_event_cb(Enter(r)))

MyBlockEventCb(r) ==
    /\ pc[r] = "streaming"
    /\ bev[r].errorcb = "my_block_event_cb"
    /\ Apply(r, my_block_event_cb(Enter(r)))

MyDirEventCb(r) ==
    /\ pc[r] = "streaming"
    /\ bev[r].errorcb = "my_dir_event_cb"
    /\ Apply(r, my_dir_event_cb(Enter(r)))

Next ==
    \E r \in Reqs :
        \/ AccessCb(r)
        \/ AccessBlksCb(r)
        \/ AccessZipCb(r)
        \/ WriteDataCb(r)
        \/ WriteFileRangeCb(r)
        \/ WriteBlockDataCb(r)
        \/ WriteDirDataCb(r)
        \/ MyEventCb(r)
        \/ FileRangeEventCb(r)
        \/ MyBlockEventCb(r)
        \/ MyDirEventCb(r)

Spec == Init /\ [][Next]_vars

(***************************************************************************)
(* Three downloads of one unencrypted file by one client: the whole file,  *)
(* then the range 0..K-1, then the range K..file_size-1; the client sends  *)
(* a request once the response before it is complete.                      *)
(***************************************************************************)
InitTriple ==
    \E f \in Files : \E K \in 1..(f.file_size - 1) :
        InitSlots([r \in Reqs |->
            IF r = 1 THEN [BaseReq EXCEPT !.file = f]
            ELSE IF r = 2
            THEN [BaseReq EXCEPT !.file = f, !.range = RangeFromTo(0, K - 1)]
            ELSE IF r = 3
            THEN [BaseReq EXCEPT !.file = f,
                                 !.range = RangeFromTo(K, f.file_size - 1)]
            ELSE NoReq])

\* the client's next request arrives at access_cb once the responses to
\* its requests before r are complete
NextDownload(r) ==
    /\ \A p \in 1..(r - 1) : pc[p] = "finished"
    /\ AccessCb(r)

NextTriple ==
    \E r \in Reqs :
        \/ NextDownload(r)
        \/ WriteDataCb(r)
        \/ WriteFileRangeCb(r)
        \/ MyEventCb(r)
        \/ FileRangeEventCb(r)

SpecTriple == InitTriple /\ [][NextTriple]_vars

(***************************************************************************)
(* The range parser on its own: /files requests on an unencrypted         *)
(* one-block file of size 1..MaxParseSize whose Range value is any text    *)
(* of up to MaxRangeLen characters; only the dispatcher runs.              *)
(***************************************************************************)
RangeChars == {"-", "0", "1", "2", "9", ",", " "}

RangeTexts == UNION {[1..n -> RangeChars] : n \in 0..MaxRangeLen}

InitParser ==
    \E size \in 1..MaxParseSize, v \in RangeTexts :
        InitSlots([r \in Reqs |->
            IF r = 1
            THEN [BaseReq EXCEPT !.file = [plain |-> <<size>>, file_size |-> size],
                                 !.range = RangeHeader(v)]
            ELSE NoReq])

NextParser == \E r \in Reqs : AccessCb(r)

SpecParser == InitParser /\ [][NextParser]_vars

(***************************************************************************)
(* Archive downloads on their own, with the event loop's scheduling: a     *)
(* dispatched request is handled, and an engine whose write-ready event    *)
(* is due gets its callback.  Nothing obliges the client to disconnect.    *)
(***************************************************************************)
InitZip == Init /\ req[1].endpoint = "zip"

NextZip ==
    \E r \in Reqs :
        \/ AccessZipCb(r)
        \/ WriteDirDataCb(r)
        \/ MyDirEventCb(r)

SpecZip ==
    /\ InitZip /\ [][NextZip]_vars
    /\ \A r \in Reqs : WF_vars(AccessZipCb(r)) /\ WF_vars(WriteDirDataCb(r))

(***************************************************************************)
(* Range requests that start anywhere inside a block longer than a chunk   *)
(* and a cipher block together: an unencrypted one-block file of up to     *)
(* SeekBlockLen bytes, requested from byte a to its end.                   *)
(***************************************************************************)
SeekBlockLen == 2 * BUFFER_SIZE + CIPHER_BLOCK

InitSeek ==
    \E size \in 1..SeekBlockLen : \E a \in 0..(size - 1) :
        Arrives([BaseReq EXCEPT !.file = [plain |-> <<size>>, file_size |-> size],
                                !.range = RangeFrom(a)])

NextSeek ==
    \E r \in Reqs :
        \/ AccessCb(r)
        \/ WriteFileRangeCb(r)
        \/ FileRangeEventCb(r)

SpecSeek == InitSeek /\ [][NextSeek]_vars

(***************************************************************************)
(* File and block downloads with the event loop's scheduling: an engine    *)
(* whose write-ready event is due gets its callback.  Nothing obliges the  *)
(* client to disconnect.                                                   *)
(***************************************************************************)
StreamBlockLists ==
    UNION {[1..n -> {0, 1, MaxBlockLen}] : n \in 1..2}

\* files of an unencrypted repository: file_size is the sum of the sizes
\* that the block store reports
StreamFiles == {[plain |-> p, file_size |-> SumSeq(p)] : p \in StreamBlockLists}

StreamRanges(f) ==
    {<<>>, RangeFrom(0), RangeLast(1), RangeFromTo(0, 0)}
    \cup (IF f.file_size >= 2 THEN {RangeFromTo(1, f.file_size - 1)} ELSE {})

InitStream ==
    \E f \in StreamFiles :
        \/ \E rg \in StreamRanges(f) :
               Arrives([BaseReq EXCEPT !.file = f, !.range = rg])
        \/ \E b \in 1..n_blocks(f) :
               Arrives([BaseReq EXCEPT !.endpoint = "blks", !.op = "downloadblks",
                                       !.file = f, !.blkid = b])

NextStream ==
    \E r \in Reqs :
        \/ AccessCb(r)
        \/ AccessBlksCb(r)
        \/ WriteDataCb(r)
        \/ WriteFileRangeCb(r)
        \/ WriteBlockDataCb(r)
        \/ MyEventCb(r)
        \/ FileRangeEventCb(r)
        \/ MyBlockEventCb(r)

SpecStream ==
    /\ InitStream /\ [][NextStream]_vars
    /\ \A r \in Reqs :
           /\ WF_vars(WriteDataCb(r)) /\ WF_vars(WriteFileRangeCb(r))
           /\ WF_vars(WriteBlockDataCb(r))

(***************************************************************************)
(* Several requests in flight on the one event loop, each on a connection  *)
(* of its own: two requests of any kind in any two slots, or three short   *)
(* ones; the loop runs the callbacks of the connections in any order.      *)
(***************************************************************************)
OneByteFile == [plain |-> <<1>>, file_size |-> 1]

ShortRequests ==
    {[BaseReq EXCEPT !.file = OneByteFile],
     [BaseReq EXCEPT !.endpoint = "blks", !.op = "downloadblks", !.blkid = 1],
     [BaseReq EXCEPT !.endpoint = "zip", !.op = "download-dir-link",
                     !.zip.size = 1]}

LoopRequests ==
    ShortRequests
    \cup {[BaseReq EXCEPT !.op = "download-link",
                          !.file = [plain |-> <<1, 1>>, file_size |-> 2]],
          [BaseReq EXCEPT !.encrypted = TRUE, !.file = OneByteFile],
          [BaseReq EXCEPT !.range = RangeFromTo(1, 2)],
          [BaseReq EXCEPT !.endpoint = "zip", !.op = "download",
                          !.zip.size = BUFFER_SIZE + 1]}

InitLoop ==
    \/ \E a \in Reqs : \E b \in (a + 1)..NReq :
           \E qa \in LoopRequests, qb \in LoopRequests :
               InitSlots([r \in Reqs |->
                   IF r = a THEN qa ELSE IF r = b THEN qb ELSE NoReq])
    \/ \E q1 \in ShortRequests, q2 \in ShortRequests, q3 \in ShortRequests :
           InitSlots([r \in Reqs |->
               IF r = 1 THEN q1 ELSE IF r = 2 THEN q2
               ELSE IF r = 3 THEN q3 ELSE NoReq])

SpecLoop == InitLoop /\ [][Next]_vars

(***************************************************************************)
(* Properties                                                              *)
(***************************************************************************)
MaxFileSize == MaxBlocks * MaxBlockLen

IsPrefix(p, q) == Len(p) <= Len(q) /\ p = SubSeq(q, 1, Len(p))

\* bytes a..b (0-based, inclusive) of q
Slice(q, a, b) == SubSeq(q, a + 1, b + 1)

\* the request passes the prelude of /files: URL, token, op, no 304
PassesFilesPrelude(r) ==
    /\ req[r].endpoint = "files"
    /\ req[r].url_ok /\ req[r].token_found /\ ~req[r].ims
    /\ req[r].op \in FileOps

\* the terminator of a streamed response has been sent
Finished(r) == pc[r] = "finished"

\* C1: a whole-file response of an unencrypted file that reaches its
\* terminator has written exactly the concatenation of the file's blocks in
\* block-list order, however the reads were split into chunks; before that
\* it has written a prefix of it; when file_size is the sum of the block
\* sizes the bytes delivered number Content-Length.
C1_WholeFileByteExact ==
    \A r \in Reqs :
        (/\ req[r].endpoint = "files"
         /\ ~req[r].encrypted
         /\ conn[r].engine = "file")
        => /\ IsPrefix(resp[r].body, PlainFile(req[r].file))
           /\ Finished(r) =>
                /\ resp[r].body = PlainFile(req[r].file)
                /\ req[r].file.file_size = SumSeq(req[r].file.plain)
                   => resp[r].hdr["Content-Length"] = <<Len(resp[r].body)>>

\* a two-block file with an empty block and a block of more than one chunk
\* has been streamed to its terminator
C1_Witness ==
    \E r \in Reqs :
        /\ req[r].endpoint = "files" /\ ~req[r].encrypted
        /\ conn[r].engine = "file" /\ Finished(r)
        /\ n_blocks(req[r].file) = 2
        /\ \E i \in 1..2 : req[r].file.plain[i] = 0
        /\ \E i \in 1..2 : req[r].file.plain[i] > BUFFER_SIZE

\* C2: a /files request on an unencrypted file with a valid range a-b,
\* 0 <= a <= b < file_size, that is not refused for a missing repository or
\* object gets status 206, Content-Range bytes a-b/file_size and
\* Content-Length b-a+1; the bytes written are a prefix of bytes a..b of the
\* concatenated blocks, and all of them once the terminator is sent.
C2_RangeByteExact ==
    \A r \in Reqs :
        (/\ PassesFilesPrelude(r)
         /\ ~req[r].encrypted
         /\ pc[r] # "new"
         /\ resp[r].status \notin {EVHTP_RES_BADREQ, EVHTP_RES_SERVERR})
        => \A a \in 0..(req[r].file.file_size - 1) :
             \A b \in a..(req[r].file.file_size - 1) :
               req[r].range = RangeFromTo(a, b)
               => /\ resp[r].status = EVHTP_RES_PARTIAL
                  /\ resp[r].hdr["Content-Range"]
                       = <<"bytes", a, b, req[r].file.file_size>>
                  /\ resp[r].hdr["Content-Length"] = <<b - a + 1>>
                  /\ IsPrefix(resp[r].body, Slice(PlainFile(req[r].file), a, b))
                  /\ Finished(r)
                     => resp[r].body = Slice(PlainFile(req[r].file), a, b)

\* a range that starts inside the first block and ends inside the second
\* has been streamed to its terminator
C2_Witness ==
    \E r \in Reqs :
        /\ PassesFilesPrelude(r) /\ ~req[r].encrypted
        /\ conn[r].engine = "range" /\ Finished(r)
        /\ n_blocks(req[r].file) = 2
        /\ \E a \in 1..(req[r].file.plain[1] - 1) :
             \E b \in (req[r].file.plain[1])..(req[r].file.file_size - 2) :
               /\ req[r].range = RangeFromTo(a, b)
               /\ Len(resp[r].body) = b - a + 1

\* C3: for an unencrypted file and 0 < K < file_size, the body of the
\* completed range response for 0..K-1 followed by the body of the completed
\* range response for K..file_size-1 equals the body of the completed
\* whole-file response for the same file.
C3_RangesConcatToWhole ==
    \A w \in Reqs, lo \in Reqs, hi \in Reqs :
        (/\ PassesFilesPrelude(w) /\ PassesFilesPrelude(lo) /\ PassesFilesPrelude(hi)
         /\ Finished(w) /\ Finished(lo) /\ Finished(hi)
         /\ ~req[w].encrypted
         /\ req[w].range = <<>>
         /\ req[lo].file = req[w].file /\ req[hi].file = req[w].file
         /\ req[lo].encrypted = req[w].encrypted
         /\ req[hi].encrypted = req[w].encrypted)
        => \A K \in 1..(req[w].file.file_size - 1) :
             (/\ req[lo].range = RangeFromTo(0, K - 1)
              /\ req[hi].range = RangeFromTo(K, req[w].file.file_size - 1))
             => resp[lo].body \o resp[hi].body = resp[w].body

\* the three responses of a two-block file are complete, K lying inside
\* the first block
C3_Witness ==
    \E w \in Reqs, lo \in Reqs, hi \in Reqs :
        /\ Finished(w) /\ Finished(lo) /\ Finished(hi)
        /\ req[w].range = <<>>
        /\ n_blocks(req[w].file) = 2
        /\ \E K \in 1..(req[w].file.plain[1] - 1) :
             /\ req[lo].range = RangeFromTo(0, K - 1)
             /\ req[hi].range = RangeFromTo(K, req[w].file.file_size - 1)
             /\ Len(resp[lo].body) = K
             /\ Len(resp[hi].body) > BUFFER_SIZE

\* the request has met its terminal event: a reply without streaming, the
\* end of the stream, a mid-stream error or a disconnect
Terminal(r) == pc[r] \in {"replied", "finished", "freed"}

\* C4: after the terminal event of a request nothing acquired for it is
\* still held: no block handle, no transform, no crypt context, no file
\* object, no archive descriptor, no engine state.
C4_NothingHeldAfterTerminal ==
    \A r \in Reqs : Terminal(r) => res[r] = NoRes /\ data[r] = NoData

\* the token does not authorize what the endpoint serves
Unauthorized(r) ==
    \/ ~req[r].token_found
    \/ req[r].endpoint = "files" /\ req[r].op \notin FileOps
    \/ req[r].endpoint = "blks" /\ req[r].op # "downloadblks"

\* C5: for a request whose token is not found, or whose op the endpoint
\* does not serve, no engine is ever installed and no byte is written; on
\* /blks every engine streams a block listed in the token's file, and only
\* bytes of that block.
C5_NoStreamWithoutAuthorization ==
    \A r \in Reqs :
        /\ Unauthorized(r)
           => /\ conn[r].engine = "none" /\ data[r] = NoData
              /\ resp[r].body = <<>>
        /\ (req[r].endpoint = "blks"
            /\ (conn[r].engine # "none" \/ resp[r].body # <<>>))
           => /\ req[r].blkid \in 1..n_blocks(req[r].file)
              /\ IsPrefix(resp[r].body,
                          StoredBytes(req[r].encrypted, req[r].file,
                                      req[r].blkid, 1,
                                      StoredSize(req[r].encrypted, req[r].file,
                                                 req[r].blkid)))

\* a /blks request with a token of another op was taken past the repository
\* and object checks to the op test, and nothing was streamed
C5_Witness ==
    \E r \in Reqs :
        /\ req[r].endpoint = "blks" /\ req[r].url_ok /\ req[r].token_found
        /\ ~req[r].ims /\ req[r].op = "view"
        /\ req[r].blkid \in 1..n_blocks(req[r].file)
        /\ pc[r] = "noreply"

\* C6: a /blks or /files request whose token exists but carries an op the
\* endpoint does not serve, and that no earlier step of the prelude has
\* answered (304, or 400 for the repository or the object), is answered 403
\* with a plain-text body before the dispatcher returns.
C6_OpMismatchAnswered403 ==
    \A r \in Reqs :
        (/\ pc[r] # "new" /\ pc[r] # "absent"
         /\ req[r].url_ok /\ req[r].token_found
         /\ resp[r].status \notin {EVHTP_RES_NOTMOD, EVHTP_RES_BADREQ}
         /\ \/ req[r].endpoint = "blks" /\ req[r].op # "downloadblks"
            \/ req[r].endpoint = "files" /\ req[r].op \notin FileOps)
        => /\ resp[r].status = EVHTP_RES_FORBIDDEN
           /\ resp[r].ended
           /\ resp[r].errbody # <<>>

\* C7: on every endpoint a request whose token is found is answered 304
\* with no body and no engine when it carries If-Modified-Since, whatever
\* its op, repository, object or archive payload; without that header it
\* gets Last-Modified and Cache-Control: max-age=3600 whatever those are.
C7_NotModifiedBeforeLaterChecks ==
    \A r \in Reqs :
        (/\ pc[r] # "new" /\ pc[r] # "absent"
         /\ req[r].url_ok /\ req[r].token_found)
        => IF req[r].ims
           THEN /\ resp[r].status = EVHTP_RES_NOTMOD
                /\ resp[r].errbody = <<>> /\ resp[r].body = <<>>
                /\ conn[r].engine = "none"
           ELSE /\ resp[r].hdr["Last-Modified"] # <<>>
                /\ resp[r].hdr["Cache-Control"] = <<"max-age=3600">>

\* the Range values the parser has to refuse for a file of the given size
InvalidRanges(size) ==
    MalformedRanges
    \cup {RangeLast(0)}
    \cup {RangeFromTo(w[1], w[2]) :
             w \in {x \in (0..(size + 1)) \X (0..(size + 1)) :
                       x[1] >= size \/ x[1] > x[2]}}
    \cup {RangeFrom(a) : a \in (size)..(size + 1)}

\* C8: a /files request on an unencrypted, non-empty file whose Range value
\* has no '-', has trailing garbage, is -0, lists two ranges or has
\* start > end after clamping is answered 416 with Content-Range
\* bytes */file_size; no engine is installed and no body byte is written.
C8_InvalidRangeAnswered416 ==
    \A r \in Reqs :
        (/\ PassesFilesPrelude(r)
         /\ ~req[r].encrypted
         /\ req[r].file.file_size >= 1
         /\ pc[r] # "new"
         /\ resp[r].status \notin {EVHTP_RES_BADREQ, EVHTP_RES_SERVERR}
         /\ req[r].range \in InvalidRanges(req[r].file.file_size))
        => /\ resp[r].status = EVHTP_RES_RANGENOTSC
           /\ resp[r].hdr["Content-Range"] = <<"bytes */", req[r].file.file_size>>
           /\ conn[r].engine = "none"
           /\ resp[r].body = <<>>

\* reading of a text as a decimal number, for stating what the parser is
\* to yield
IsDecimal(t) == Len(t) >= 1 /\ \A i \in 1..Len(t) : IsDigit(t[i])

RECURSIVE Decimal(_)
Decimal(t) ==
    IF Len(t) = 0 THEN 0
    ELSE 10 * Decimal(SubSeq(t, 1, Len(t) - 1)) + DigitVal(t[Len(t)])

\* C9: whenever parse_range_val accepts a value against a file size S >= 1
\* the start and end it yields satisfy 0 <= start <= end <= S-1; "-N" yields
\* (S-N, S-1) and is accepted only for 1 <= N <= S, "N-" yields (N, S-1),
\* "N-M" yields (N, min(M, S-1)); no wrapped or out-of-file start is ever
\* accepted.
C9_AcceptedRangeWithinFile ==
    \A r \in Reqs :
        (/\ PassesFilesPrelude(r) /\ ~req[r].encrypted
         /\ pc[r] = "streaming" /\ data[r].kind = "range")
        => LET S == req[r].file.file_size
               start == data[r].start_off
               end == data[r].start_off + data[r].range_remain - 1
               v == SubSeq(req[r].range, 7, Len(req[r].range))
               dash == strchr(v, "-")
               left == SubSeq(v, 1, dash - 1)
               right == SubSeq(v, dash + 1, Len(v))
           IN  /\ 0 <= start /\ start <= end /\ end <= S - 1
               /\ resp[r].hdr["Content-Range"] = <<"bytes", start, end, S>>
               /\ dash >= 1
               /\ (dash = 1 /\ IsDecimal(right))
                  => /\ Decimal(right) \in 1..S
                     /\ start = S - Decimal(right) /\ end = S - 1
               /\ (dash = Len(v) /\ IsDecimal(left))
                  => /\ Decimal(left) < S
                     /\ start = Decimal(left) /\ end = S - 1
               /\ (IsDecimal(left) /\ IsDecimal(right))
                  => /\ start = Decimal(left)
                     /\ end = Min(Decimal(right), S - 1)

\* "-2" was accepted against a 3-byte file: the start wrapped back into
\* the file
C9_Witness ==
    \E r \in Reqs :
        /\ PassesFilesPrelude(r) /\ ~req[r].encrypted
        /\ pc[r] = "streaming" /\ data[r].kind = "range"
        /\ req[r].range = RangeLast(2)
        /\ req[r].file.file_size = 3
        /\ data[r].start_off = 1 /\ data[r].range_remain = 2

\* C10: a /files request is served in byte-range mode exactly when it
\* carries a Range header and the repository is not encrypted; on an
\* encrypted repository a request with a Range header is served whole:
\* 200, Content-Length file_size, no Content-Range, and the decrypted file
\* as body.
C10_RangeModeIffUnencrypted ==
    \A r \in Reqs :
        (req[r].endpoint = "files" /\ conn[r].mode # "none")
        => /\ conn[r].mode = "range"
              <=> (req[r].range # <<>> /\ ~req[r].encrypted)
           /\ (/\ req[r].encrypted /\ req[r].range # <<>>
               /\ resp[r].status # EVHTP_RES_SERVERR)
              => /\ resp[r].status = EVHTP_RES_OK
                 /\ resp[r].hdr["Content-Length"] = <<req[r].file.file_size>>
                 /\ resp[r].hdr["Content-Range"] = <<>>
                 /\ IsPrefix(resp[r].body, PlainFile(req[r].file))
                 /\ Finished(r) => resp[r].body = PlainFile(req[r].file)

\* an encrypted two-block file requested with a Range header has been
\* streamed whole to its terminator
C10_Witness ==
    \E r \in Reqs :
        /\ req[r].endpoint = "files" /\ req[r].encrypted
        /\ req[r].range # <<>>
        /\ conn[r].engine = "file" /\ Finished(r)
        /\ n_blocks(req[r].file) = 2
        /\ Len(resp[r].body) > CIPHER_BLOCK
        /\ \E i \in 1..2 : req[r].file.plain[i] % CIPHER_BLOCK # 0

\* C11: a HEAD request to /files that passes the prelude, with or without
\* a Range header, gets no engine, opens no block and is sent no body byte.
C11_HeadAnsweredWithoutBody ==
    \A r \in Reqs :
        (PassesFilesPrelude(r) /\ req[r].method = "HEAD" /\ pc[r] # "new")
        => /\ conn[r].engine = "none" /\ data[r] = NoData
           /\ res[r].handle = 0
           /\ resp[r].body = <<>>

\* C12: a /zip request that fails before an engine is installed (payload
\* missing, unparsable or without dir_name and file_list, no archive path,
\* archive stat or open failure) and a /blks request whose file object
\* cannot be loaded are answered 500 before the dispatcher returns, with a
\* body made of a non-null error string and a newline.
C12_FailureAnsweredWithErrorText ==
    \A r \in Reqs :
        (/\ pc[r] # "new" /\ pc[r] # "absent"
         /\ req[r].url_ok /\ req[r].token_found
         /\ conn[r].engine = "none"
         /\ resp[r].status # EVHTP_RES_NOTMOD
         /\ \/ req[r].endpoint = "zip"
            \/ /\ req[r].endpoint = "blks" /\ req[r].op = "downloadblks"
               /\ resp[r].status # EVHTP_RES_BADREQ)
        => /\ pc[r] = "replied"
           /\ resp[r].status = EVHTP_RES_SERVERR
           /\ Len(resp[r].errbody) = 2
           /\ resp[r].errbody[1] # "(null)"
           /\ resp[r].errbody[2] = "\n"

\* the engine's own error path has torn the connection down: the
\* connection is freed and evhtp's error callback was not what freed it
FailedMidStream(r) == pc[r] = "freed" /\ conn[r].errcb = 0

\* C13: when an engine meets a block open, stat or read failure, a decrypt
\* failure or an archive read failure after the response start, the
\* connection is freed and the engine state released; the step that meets
\* the failure writes no body byte and emits no statistics event, the
\* response has no terminator, and nothing is written or emitted for the
\* request afterwards.
C13_MidStreamFailureTearsDown ==
    /\ [](\A r \in Reqs :
            FailedMidStream(r)
            => /\ resp[r].started /\ ~resp[r].ended
               /\ data[r] = NoData /\ res[r] = NoRes
               /\ bev[r] = FreedCallbacks
               /\ stats[r] = <<>>)
    /\ [][\A r \in Reqs :
            /\ (pc[r] = "streaming" /\ pc'[r] = "freed"
                /\ conn'[r].errcb = conn[r].errcb)
               => resp'[r].body = resp[r].body /\ stats'[r] = stats[r]
            /\ pc[r] = "freed"
               => /\ pc'[r] = "freed" /\ resp'[r] = resp[r]
                  /\ stats'[r] = stats[r]]_vars

\* the second block of an encrypted file failed after bytes of the first
\* had been written
C13_Witness ==
    \E r \in Reqs :
        /\ FailedMidStream(r)
        /\ conn[r].engine = "file" /\ req[r].encrypted
        /\ n_blocks(req[r].file) = 2
        /\ Len(resp[r].body) = req[r].file.plain[1]
        /\ resp[r].body # <<>>

\* C14: on /blks with a token of op downloadblks, once the file object is
\* loaded, a block id that is not in the file's block list is answered 400
\* with no engine; an engine is installed only for a listed block, with
\* status 200 and Content-Length the block's stat'ed size; it writes that
\* block's bytes in order and nothing else, and at the terminator the body
\* is the whole block and exactly one web-file-download event carrying the
\* block size has been emitted, none before.
C14_BlockServedOrRefused ==
    \A r \in Reqs :
        (/\ req[r].endpoint = "blks" /\ req[r].op = "downloadblks"
         /\ req[r].url_ok /\ req[r].token_found /\ ~req[r].ims
         /\ pc[r] # "new" /\ pc[r] # "absent")
        => LET listed == req[r].blkid \in 1..n_blocks(req[r].file)
               size == StoredSize(req[r].encrypted, req[r].file, req[r].blkid)
               bytes == StoredBytes(req[r].encrypted, req[r].file,
                                    req[r].blkid, 1, size)
           IN  /\ (~listed /\ resp[r].status # EVHTP_RES_SERVERR
                   /\ pc[r] # "crashed")
                  => /\ pc[r] = "replied"
                     /\ resp[r].status = EVHTP_RES_BADREQ
                     /\ conn[r].engine = "none" /\ resp[r].body = <<>>
               /\ conn[r].engine # "none"
                  => /\ listed /\ conn[r].engine = "block"
                     /\ resp[r].status = EVHTP_RES_OK
                     /\ resp[r].hdr["Content-Length"] = <<size>>
                     /\ IsPrefix(resp[r].body, bytes)
                     /\ ~Finished(r) => stats[r] = <<>>
                     /\ Finished(r)
                        => /\ resp[r].body = bytes
                           /\ stats[r] = <<[oper |-> "web-file-download",
                                            bytes |-> size]>>

\* the second block of a file, longer than one chunk, has been streamed to
\* its terminator
C14_Witness ==
    \E r \in Reqs :
        /\ req[r].endpoint = "blks" /\ req[r].op = "downloadblks"
        /\ conn[r].engine = "block" /\ Finished(r)
        /\ req[r].blkid = 2
        /\ Len(resp[r].body) > BUFFER_SIZE
        /\ Len(stats[r]) = 1

\* C15: every /zip engine installed over an archive of any size S >= 0,
\* given its write-ready ticks, comes to an end: it finalizes the response
\* after writing the S bytes of the archive, unless a read error or a
\* disconnect tears the connection down first.
C15_ZipStreamEnds ==
    \A r \in Reqs :
        (conn[r].engine = "dir") ~> (pc[r] \in {"finished", "freed"})

\* C16: for a /zip request whose engine is installed,
\* zip_download_mgr_del_zip_progress is never called twice; it has not
\* been called while the engine is installed and has been called once when
\* the stream has ended, whether by the terminator (then every byte of the
\* archive has been written before the call), by a read error or by a
\* disconnect; the engine state is gone when it has been called.
C16_ZipProgressDeletedOnce ==
    \A r \in Reqs :
        conn[r].engine = "dir"
        => /\ zipdel[r] <= 1
           /\ zipdel[r] = 1 <=> pc[r] \in {"finished", "freed"}
           /\ zipdel[r] = 1 => data[r] = NoData /\ res[r].zipfd = 0
           /\ Finished(r)
              => /\ resp[r].ended
                 /\ resp[r].body = ZipBytes(req[r].zip.size)

\* an archive of more than two chunks has been streamed to its terminator
\* and its progress record deleted
C16_Witness ==
    \E r \in Reqs :
        /\ conn[r].engine = "dir" /\ Finished(r)
        /\ req[r].zip.size > 2 * BUFFER_SIZE
        /\ Len(resp[r].body) = req[r].zip.size
        /\ zipdel[r] = 1

\* the event kind that goes with a /files token's op
StatKind(op) ==
    IF op = "download-link" THEN "link-file-download" ELSE "web-file-download"

\* C17: in whole-file mode at most one statistics event is emitted, and
\* only by a response that has sent its terminator; such a response of op
\* download or download-link has emitted exactly one, of kind
\* web-file-download or link-file-download and byte count file_size, and
\* one of op view none; a response ended by error or disconnect and a HEAD
\* or empty-file reply have emitted none.
C17_WholeFileStatistics ==
    \A r \in Reqs :
        (req[r].endpoint = "files" /\ conn[r].mode = "whole")
        => /\ stats[r] # <<>>
              => /\ Finished(r) /\ resp[r].ended
                 /\ conn[r].engine = "file"
           /\ Finished(r)
              => stats[r] = IF req[r].op = "view" THEN <<>>
                            ELSE <<[oper |-> StatKind(req[r].op),
                                    bytes |-> req[r].file.file_size]>>

\* a two-block download by share link has reached its terminator and its
\* one event is out
C17_Witness ==
    \E r \in Reqs :
        /\ req[r].endpoint = "files" /\ conn[r].mode = "whole"
        /\ req[r].op = "download-link"
        /\ Finished(r) /\ n_blocks(req[r].file) = 2
        /\ Len(resp[r].body) > BUFFER_SIZE
        /\ stats[r] = <<[oper |-> "link-file-download",
                         bytes |-> req[r].file.file_size]>>

\* C18: in byte-range mode a statistics event is emitted only by a range
\* response that has completed and whose last byte is file_size - 1, and
\* at most once: a completed range ending before the last byte, and a
\* range response ended by error or disconnect, have emitted none.
C18_RangeStatisticsOnlyAtFileEnd ==
    \A r \in Reqs :
        (req[r].endpoint = "files" /\ conn[r].mode = "range"
         /\ stats[r] # <<>>)
        => /\ Finished(r) /\ conn[r].engine = "range"
           /\ Len(stats[r]) = 1
           /\ resp[r].hdr["Content-Range"][3] = req[r].file.file_size - 1

\* a range of more than one chunk that stops before the file's last byte
\* has completed without an event
C18_Witness ==
    \E r \in Reqs :
        /\ conn[r].engine = "range" /\ Finished(r)
        /\ req[r].op = "download"
        /\ resp[r].hdr["Content-Range"][3] < req[r].file.file_size - 1
        /\ Len(resp[r].body) > BUFFER_SIZE
        /\ stats[r] = <<>>

\* C19: every completed byte-range response whose range ends at
\* file_size - 1 has emitted exactly one statistics event with byte count
\* file_size, wherever the range starts and however it is spread over
\* blocks and chunks (stated for op download and download-link).
C19_RangeToFileEndCounted ==
    \A r \in Reqs :
        (/\ conn[r].engine = "range" /\ Finished(r)
         /\ req[r].method = "GET" /\ req[r].op # "view"
         /\ req[r].file.file_size >= 1
         /\ resp[r].hdr["Content-Range"][3] = req[r].file.file_size - 1)
        => /\ Len(stats[r]) = 1
           /\ stats[r][1].bytes = req[r].file.file_size

\* C20: a /files request of op view never emits a statistics event, in
\* whole-file and in byte-range mode; every event of a /files request has
\* kind link-file-download for op download-link and web-file-download for
\* op download.
C20_NoStatisticsForView ==
    \A r \in Reqs :
        (req[r].endpoint = "files" /\ req[r].method = "GET")
        => /\ req[r].op = "view" => stats[r] = <<>>
           /\ \A i \in 1..Len(stats[r]) :
                stats[r][i].oper = StatKind(req[r].op)

\* the User-Agent value has "firefox" in it, in whatever case
NamesFirefox(ua) ==
    \E i \in 0..(Len(ua) - 7) :
        \A k \in 1..7 :
            \/ ua[i + k] = <<"f", "i", "r", "e", "f", "o", "x">>[k]
            \/ ua[i + k] = <<"F", "I", "R", "E", "F", "O", "X">>[k]

\* C21: every /files content response, whole-file or byte-range, has
\* Content-Disposition attachment exactly when the token's op is download
\* or download-link and inline otherwise, and gives the file name in the
\* filename*="utf-8' '<name>" form exactly when the User-Agent names
\* firefox, in the plain filename="<name>" form otherwise.
C21_DispositionByOpAndAgent ==
    \A r \in Reqs :
        (/\ req[r].endpoint = "files"
         /\ conn[r].mode # "none"
         /\ resp[r].status \in {EVHTP_RES_OK, EVHTP_RES_PARTIAL}
         /\ n_blocks(req[r].file) > 0)
        => resp[r].hdr["Content-Disposition"]
             = << IF req[r].op \in {"download", "download-link"}
                  THEN "attachment" ELSE "inline",
                  IF NamesFirefox(req[r].user_agent)
                  THEN "filename*=utf-8" ELSE "filename=",
                  req[r].filename >>

\* C22: at every step of every request, the range seek that discards the
\* prefix of the starting block included, no buffer allocated or filled for
\* the request is larger than one chunk (64 KiB) plus one cipher block,
\* whatever the file size, the block size and the range start.
C22_BufferWithinChunkAndCipherBlock ==
    \A r \in Reqs : conn[r].maxbuf <= BUFFER_SIZE + CIPHER_BLOCK

\* the callbacks an engine installs on the transport
EngineCallbacks ==
    {"write_data_cb", "write_file_range_cb", "write_block_data_cb",
     "write_dir_data_cb", "my_event_cb", "file_range_event_cb",
     "my_block_event_cb", "my_dir_event_cb"}

\* C23: the state of an installed engine, whichever of the four, is
\* released exactly once: not while the stream is going on, once when the
\* stream has ended by terminator, read error or disconnect, never twice;
\* once it is released the transport no longer refers to it: its callbacks
\* are evhtp's again (end of stream) or the connection is freed (error,
\* disconnect), so that no engine callback can run on the released state.
C23_EngineStateReleasedOnce ==
    \A r \in Reqs :
        /\ conn[r].released <= 1
        /\ conn[r].engine = "none" => conn[r].released = 0
        /\ conn[r].engine # "none"
           => /\ conn[r].released = 1 <=> pc[r] \in {"finished", "freed"}
              /\ conn[r].released = 1 <=> data[r] = NoData
              /\ conn[r].released = 0
                 => /\ data[r].kind = conn[r].engine
                    /\ bev[r].cbarg = "data"
              /\ conn[r].released = 1
                 => /\ bev[r].cbarg # "data"
                    /\ bev[r].writecb \notin EngineCallbacks
                    /\ bev[r].errorcb \notin EngineCallbacks
                    /\ Finished(r) => bev[r] = EvhtpCallbacks
                    /\ pc[r] = "freed" => bev[r] = FreedCallbacks

\* an encrypted file of two blocks was streamed to its terminator and the
\* engine state released, once
C23_Witness ==
    \E r \in Reqs :
        /\ conn[r].engine = "file" /\ req[r].encrypted
        /\ Finished(r) /\ n_blocks(req[r].file) = 2
        /\ Len(resp[r].body) > BUFFER_SIZE
        /\ conn[r].released = 1 /\ data[r] = NoData
        /\ bev[r] = EvhtpCallbacks

\* the engines that read blocks through a handle
BlockEngines == {"file", "range", "block"}

\* position of the first call e in the trace, 0 when it is not there
Pos(trace, e) ==
    IF \E i \in 1..Len(trace) : trace[i] = e
    THEN CHOOSE i \in 1..Len(trace) :
             trace[i] = e /\ \A j \in 1..(i - 1) : trace[j] # e
    ELSE 0

\* the block the engine state is at (1-based), 0 before the range seek
CurrentBlock(d) ==
    IF d.kind = "file" THEN d.idx + 1
    ELSE IF d.kind = "range" THEN d.blk_idx + 1
    ELSE d.block_id

\* position of the last call e in the trace, 0 when it is not there
LastPos(trace, e) ==
    IF \E i \in 1..Len(trace) : trace[i] = e
    THEN CHOOSE i \in 1..Len(trace) :
             trace[i] = e /\ \A j \in (i + 1)..Len(trace) : trace[j] # e
    ELSE 0

\* the handles open for the request are the one handle in the engine
\* state, a handle of the block the engine is at, and there never were two
OneHandleOfCurrentBlock(r) ==
    /\ conn[r].maxopen <= 1
    /\ res[r].handle \in {0, 1}
    /\ data[r].kind \in BlockEngines
       => /\ res[r].handle = 1 <=> data[r].handle # NoHandle
          /\ data[r].handle # NoHandle
             => data[r].handle.blk = CurrentBlock(data[r])
    /\ data[r].kind \notin BlockEngines => res[r].handle = 0

\* C24: a whole-file, byte-range or block engine has at most one block
\* handle open: a block is opened only when the engine state holds no
\* handle, the handle held is one of the block the engine is at (it is
\* closed and cleared before the block index advances), and it is closed
\* before the response is finalized.
C24_AtMostOneBlockOpen ==
    \A r \in Reqs :
        /\ OneHandleOfCurrentBlock(r)
        /\ (conn[r].engine \in BlockEngines /\ Finished(r))
           => /\ LastPos(conn[r].trace, "close") > 0
              /\ LastPos(conn[r].trace, "close") < Pos(conn[r].trace, "end")

\* C24 as amended: as C24, except that at the end of the stream the handle
\* is closed before the engine state is released: before the terminator in
\* the whole-file and block engines, whose stream ends at the end of a
\* block, and by the release that follows the terminator in the byte-range
\* engine, whose range can end inside a block.
C24_HandleClosedBeforeRelease ==
    \A r \in Reqs :
        /\ OneHandleOfCurrentBlock(r)
        /\ (conn[r].engine \in BlockEngines /\ Finished(r))
           => /\ LastPos(conn[r].trace, "close") > 0
              /\ LastPos(conn[r].trace, "open")
                   < LastPos(conn[r].trace, "close")
              /\ LastPos(conn[r].trace, "close")
                   < Pos(conn[r].trace, "release")
              /\ conn[r].engine \in {"file", "block"}
                 => LastPos(conn[r].trace, "close") < Pos(conn[r].trace, "end")
              /\ conn[r].engine = "range"
                 => Pos(conn[r].trace, "end") < LastPos(conn[r].trace, "close")

\* a range spread over two blocks has been streamed to its terminator:
\* its last callback closed the first block, opened the second and closed
\* it after the terminator
C24_Witness ==
    \E r \in Reqs :
        /\ conn[r].engine = "range" /\ Finished(r)
        /\ n_blocks(req[r].file) = 2
        /\ Pos(conn[r].trace, "close") > 0
        /\ Pos(conn[r].trace, "close") < Pos(conn[r].trace, "open")
        /\ Pos(conn[r].trace, "open") < Pos(conn[r].trace, "end")
        /\ Pos(conn[r].trace, "end") < LastPos(conn[r].trace, "close")
        /\ conn[r].maxopen = 1 /\ res[r].handle = 0

\* C25: between the callbacks of a whole-file engine the decryption
\* transform is initialized exactly when a block is open and the file is
\* encrypted; a transform is destroyed right after its block is closed, at
\* the block's end or at release, and only a transform that exists is
\* destroyed: never one twice, never one that was not initialized, also
\* where the block's stat or the transform's init has failed.
C25_TransformFollowsBlock ==
    \A r \in Reqs :
        /\ res[r].ctx \in {0, 1}
        /\ conn[r].misuse = 0
        /\ data[r].kind = "file"
           => /\ data[r].enc_init
                 <=> (data[r].handle # NoHandle /\ data[r].crypt)
              /\ res[r].ctx = 1 <=> data[r].enc_init
        /\ data[r].kind # "file" => res[r].ctx = 0
        /\ conn[r].engine = "file"
           => \A i \in 1..Len(conn[r].trace) :
                /\ conn[r].trace[i] = "destroy"
                   => i > 1 /\ conn[r].trace[i - 1] = "close"
                /\ (conn[r].trace[i] \in {"stat_failed", "init_failed"})
                   => \A j \in (i + 1)..Len(conn[r].trace) :
                        conn[r].trace[j] # "destroy"

\* the transform of the second block of an encrypted file could not be
\* initialized, after the first block's transform had been destroyed at
\* the end of that block: the block is closed and nothing is destroyed again
C25_Witness ==
    \E r \in Reqs :
        /\ conn[r].engine = "file" /\ req[r].encrypted
        /\ FailedMidStream(r)
        /\ Pos(conn[r].trace, "destroy") > 0
        /\ Pos(conn[r].trace, "destroy") < Pos(conn[r].trace, "init_failed")
        /\ Pos(conn[r].trace, "init_failed") < LastPos(conn[r].trace, "close")
        /\ res[r].ctx = 0 /\ res[r].handle = 0

\* C26: in every engine the snapshot of the transport's callbacks taken at
\* install is never changed by the engine, and at the end of the stream the
\* transport's read, write and error callbacks and their argument are set
\* back to it before the request is resumed and before the terminator is
\* sent; the terminator comes before the statistics event, and that before
\* the release of the engine state (the order of the event is stated for
\* GET requests of an op other than view, which are to emit one).
C26_RestoreThenEndThenStatistics ==
    \A r \in Reqs :
        /\ data[r].kind # "none" => data[r].saved = EvhtpCallbacks
        /\ (conn[r].engine # "none" /\ Finished(r))
           => LET tr == conn[r].trace
              IN  /\ bev[r] = EvhtpCallbacks
                  /\ Pos(tr, "restore") > 0
                  /\ Pos(tr, "restore") < Pos(tr, "resume")
                  /\ Pos(tr, "resume") < Pos(tr, "end")
                  /\ Pos(tr, "end") < Pos(tr, "release")
                  /\ (Pos(tr, "statistic") > 0
                      /\ req[r].method = "GET" /\ req[r].op # "view")
                     => /\ Pos(tr, "end") < Pos(tr, "statistic")
                        /\ Pos(tr, "statistic") < Pos(tr, "release")

\* the write and error callbacks of each engine
EngineWriteCb(kind) ==
    IF kind = "file" THEN "write_data_cb"
    ELSE IF kind = "range" THEN "write_file_range_cb"
    ELSE IF kind = "block" THEN "write_block_data_cb"
    ELSE "write_dir_data_cb"

EngineErrorCb(kind) ==
    IF kind = "file" THEN "my_event_cb"
    ELSE IF kind = "range" THEN "file_range_event_cb"
    ELSE IF kind = "block" THEN "my_block_event_cb"
    ELSE "my_dir_event_cb"

\* C27: when a dispatcher has installed an engine, the response start is
\* the last thing it did: every response header was added, the transport's
\* callbacks captured and replaced by the engine's and the request paused
\* before it; the dispatcher has written no body byte and has not sent the
\* terminator; no body byte is ever written before the response start.
C27_HeadersAndInstallBeforeStart ==
    \A r \in Reqs :
        /\ resp[r].body # <<>> => resp[r].started
        /\ conn[r].engine # "none" => resp[r].started
        /\ Pos(conn[r].trace, "start") > 0
           => LET tr == conn[r].trace
              IN  /\ pc[r] = "streaming" /\ data[r].kind = conn[r].engine
                  /\ Pos(tr, "start") = Len(tr)
                  /\ LastPos(tr, "header") > 0
                  /\ LastPos(tr, "header") < Pos(tr, "capture")
                  /\ Pos(tr, "capture") < Pos(tr, "setcb")
                  /\ Pos(tr, "setcb") < Pos(tr, "pause")
                  /\ Pos(tr, "pause") < Pos(tr, "start")
                  /\ Pos(tr, "write") = 0 /\ Pos(tr, "end") = 0
                  /\ Pos(tr, "reply") = 0
                  /\ resp[r].started /\ ~resp[r].ended /\ resp[r].body = <<>>
                  /\ conn[r].paused
                  /\ data[r].saved = EvhtpCallbacks
                  /\ bev[r] = [readcb |-> "NULL",
                               writecb |-> EngineWriteCb(conn[r].engine),
                               errorcb |-> EngineErrorCb(conn[r].engine),
                               cbarg |-> "data"]
                  /\ resp[r].hdr["Content-Length"] # <<>>
                  /\ resp[r].hdr["Content-Disposition"] # <<>>
                  /\ resp[r].hdr["Last-Modified"] # <<>>

\* the dispatcher has just installed a byte-range engine: Content-Range
\* and the other headers are set, the request is paused, nothing is written
C27_Witness ==
    \E r \in Reqs :
        /\ pc[r] = "streaming" /\ conn[r].engine = "range"
        /\ Pos(conn[r].trace, "start") = Len(conn[r].trace)
        /\ Len(conn[r].trace) > 4
        /\ resp[r].status = EVHTP_RES_PARTIAL
        /\ resp[r].hdr["Content-Range"] # <<>>
        /\ conn[r].paused /\ resp[r].body = <<>> /\ ~resp[r].ended

\* C28: in the write callback of every engine no field of the engine
\* state is read or written after the socket write of that invocation, so
\* that a write which re-enters the callback and has the state released
\* leaves nothing of it in use.
C28_NoStateUseAfterWrite ==
    \A r \in Reqs :
        \A i \in 1..Len(conn[r].trace) :
            \A j \in (i + 1)..Len(conn[r].trace) :
                conn[r].trace[i] = "write" => conn[r].trace[j] # "touch"

\* C29: when the transport's error event fires on an installed engine,
\* the engine's event handler first calls the saved error callback with
\* the saved argument and then releases the engine state, closing the block
\* that is open and destroying the transform that is initialized; it sends
\* no terminator, writes nothing and emits no statistics event.
C29_DisconnectCallsSavedThenReleases ==
    /\ [](\A r \in Reqs :
            conn[r].errcb > 0
            => LET tr == conn[r].trace
               IN  /\ conn[r].errcb = 1 /\ pc[r] = "freed"
                   /\ Len(tr) >= 4
                   /\ tr[1] = EvhtpCallbacks.errorcb
                   /\ tr[2] = EvhtpCallbacks.cbarg
                   /\ tr[3] = "connection_free"
                   /\ tr[Len(tr)] = "release"
                   /\ Pos(tr, "end") = 0 /\ Pos(tr, "statistic") = 0
                   /\ Pos(tr, "write") = 0
                   /\ conn[r].released = 1 /\ data[r] = NoData
                   /\ res[r].handle = 0 /\ res[r].ctx = 0
                   /\ ~resp[r].ended /\ stats[r] = <<>>)
    /\ [][\A r \in Reqs :
            conn'[r].errcb # conn[r].errcb
            => /\ resp'[r] = resp[r] /\ stats'[r] = stats[r]
               /\ Pos(conn'[r].trace, "close") > 0
                  <=> (data[r].kind \in BlockEngines
                       /\ data[r].handle # NoHandle)
               /\ Pos(conn'[r].trace, "destroy") > 0
                  <=> (data[r].kind = "file" /\ data[r].enc_init)]_vars

\* the client went away in the middle of the second block of an encrypted
\* file: the saved callback was called, then the block closed and the
\* transform destroyed
C29_Witness ==
    \E r \in Reqs :
        /\ conn[r].errcb = 1 /\ conn[r].engine = "file" /\ req[r].encrypted
        /\ Len(resp[r].body) > req[r].file.plain[1]
        /\ req[r].file.plain[1] > 0
        /\ Len(resp[r].body) < req[r].file.file_size
        /\ conn[r].trace = <<EvhtpCallbacks.errorcb, EvhtpCallbacks.cbarg,
                             "connection_free", "close", "destroy", "release">>

\* the calls that may follow the call c on one transform, when the block
\* is read to its end
CipherFollows(c) ==
    CASE c = "init" -> {"update"}
      [] c = "update" -> {"update", "final"}
      [] c = "final" -> {"destroy"}
      [] c = "destroy" -> {"init"}

\* the cipher calls of a request are those of its blocks one after the
\* other; only the last call may cut a block short, and that is the destroy
\* of a response that is dropped
CipherOrder(h, dropped) ==
    /\ Len(h) > 0 => h[1] = "init"
    /\ \A i \in 1..(Len(h) - 1) :
           \/ h[i + 1] \in CipherFollows(h[i])
           \/ /\ i + 1 = Len(h) /\ dropped
              /\ h[i + 1] = "destroy" /\ h[i] \in {"init", "update"}

\* C30: for each block of an encrypted file the transform calls are init,
\* one update per chunk read, one final, destroy (a response that is dropped
\* stops short with the destroy); the final is issued in the tick of the
\* update that brings the block's remaining count to 0, after that update
\* and before the write and the close; the bytes written in that tick are
\* the update output followed by the final output; no update or final is
\* issued on a transform that is not initialized, is finalized or is
\* destroyed.
C30_CipherCallOrder ==
    /\ [](\A r \in Reqs :
            LET tr == conn[r].trace
                h == conn[r].cipher
            IN  /\ conn[r].misuse = 0
                /\ CipherOrder(h, pc[r] = "freed" /\ ~resp[r].ended)
                /\ Len(h) > 0 => req[r].encrypted /\ conn[r].engine = "file"
                /\ Cardinality({i \in 1..Len(tr) : tr[i] = "update"}) <= 1
                /\ Cardinality({i \in 1..Len(tr) : tr[i] = "final"}) <= 1
                /\ Pos(tr, "final") > 0
                   => /\ Pos(tr, "update") > 0
                      /\ Pos(tr, "update") < Pos(tr, "final")
                      /\ Pos(tr, "write") > 0
                         => Pos(tr, "final") < Pos(tr, "write")
                      /\ \A j \in 1..Len(tr) :
                             tr[j] = "close"
                             => \/ Pos(tr, "final") < j
                                \/ j < Pos(tr, "open")
                                   /\ Pos(tr, "open") < Pos(tr, "final")
                      /\ data[r] # NoData => data[r].remain = 0
                /\ (Pos(tr, "update") > 0 /\ data[r] # NoData)
                   => /\ Pos(tr, "write") > Pos(tr, "update")
                      /\ data[r].handle # NoHandle
                      /\ Pos(tr, "final") > 0 <=> data[r].remain = 0)
    /\ [][\A r \in Reqs :
            (Pos(conn'[r].trace, "final") > 0 /\ data'[r] # NoData
             /\ conn'[r].trace # conn[r].trace)
            => LET fresh == Pos(conn'[r].trace, "open") > 0
                   from == IF fresh THEN 0 ELSE data[r].handle.pos
                   held == IF fresh THEN <<>> ELSE data[r].ctx
                   h2 == data'[r].handle
                   u == DecryptUpdate(held,
                            StoredBytes(TRUE, req[r].file, h2.blk,
                                        from + 1, h2.pos))
               IN  /\ h2.pos = StoredSize(TRUE, req[r].file, h2.blk)
                   /\ resp'[r].body
                      = resp[r].body \o u.out \o DecryptFinal(u.held).out]_vars

\* the second block of an encrypted file has been decrypted over more than
\* one chunk and closed, and the response is complete
C30_Witness ==
    \E r \in Reqs :
        /\ req[r].encrypted /\ conn[r].engine = "file" /\ resp[r].ended
        /\ n_blocks(req[r].file) = 2
        /\ resp[r].body = PlainFile(req[r].file)
        /\ conn[r].cipher = <<"init", "update", "final", "destroy",
                              "init", "update", "update", "final", "destroy">>

\* C31: zip_download_mgr_del_zip_progress is called only for a /zip
\* request whose engine was installed and whose stream has ended, by the
\* terminator or by teardown; a /zip request that installs no engine, the
\* one answered 304 Not Modified included, leaves the progress record of
\* its token untouched.
C31_ProgressDeletedOnlyByEngine ==
    \A r \in Reqs :
        /\ zipdel[r] > 0
           => /\ req[r].endpoint = "zip" /\ conn[r].engine = "dir"
              /\ pc[r] \in {"finished", "freed"}
        /\ conn[r].engine = "none" => zipdel[r] = 0

\* C31 as the code has it: the progress record of a token is deleted at
\* most once, and only by a /zip request: one whose installed engine has
\* streamed to the terminator or was torn down, or one that installed no
\* engine and was answered 304 Not Modified, which always deletes it; every
\* other request that installs no engine leaves it untouched.
C31_ProgressDeletedByEngineOrNotModified ==
    \A r \in Reqs :
        /\ zipdel[r] <= 1
        /\ zipdel[r] = 1
           => /\ req[r].endpoint = "zip"
              /\ \/ conn[r].engine = "dir" /\ pc[r] \in {"finished", "freed"}
                 \/ /\ conn[r].engine = "none" /\ req[r].ims
                    /\ resp[r].status = EVHTP_RES_NOTMOD
        /\ (req[r].endpoint = "zip" /\ resp[r].status = EVHTP_RES_NOTMOD)
           => zipdel[r] = 1 /\ conn[r].engine = "none"
        /\ (conn[r].engine = "none" /\ resp[r].status # EVHTP_RES_NOTMOD)
           => zipdel[r] = 0

\* a /zip request with If-Modified-Since has been answered 304 with no
\* engine installed, and the progress record of its token is deleted
C31_Witness ==
    \E r \in Reqs :
        /\ req[r].endpoint = "zip" /\ req[r].ims
        /\ pc[r] = "replied" /\ resp[r].status = EVHTP_RES_NOTMOD
        /\ conn[r].engine = "none" /\ data[r] = NoData
        /\ zipdel[r] = 1

\* the request q on its own, before its dispatcher has run
AloneStart(q) ==
    [req |-> q, pc |-> "new", resp |-> NoResp, data |-> NoData,
     bev |-> EvhtpCallbacks, conn |-> NoConn, res |-> NoRes,
     stats |-> <<>>, zipdel |-> 0]

\* what one callback can make of a request that is on its own in state s
AloneStep(s) ==
    LET e == [s EXCEPT !.conn.trace = <<>>]
        w == [e EXCEPT !.conn.pending = FALSE]
    IN  IF s.pc = "new"
        THEN {Returned(o) :
                 o \in CASE s.req.endpoint = "files" -> access_cb(e)
                         [] s.req.endpoint = "blks" -> access_blks_cb(e)
                         [] s.req.endpoint = "zip" -> access_zip_cb(e)
                         [] OTHER -> {}}
        ELSE IF s.pc # "streaming" THEN {}
        ELSE (IF ~s.conn.pending THEN {}
              ELSE CASE s.bev.writecb = "write_data_cb" -> write_data_cb(w)
                     [] s.bev.writecb = "write_file_range_cb"
                            -> write_file_range_cb(w)
                     [] s.bev.writecb = "write_block_data_cb"
                            -> write_block_data_cb(w)
                     [] s.bev.writecb = "write_dir_data_cb"
                            -> write_dir_data_cb(w)
                     [] OTHER -> {})
             \cup (CASE s.bev.errorcb = "my_event_cb" -> {my_event_cb(e)}
                     [] s.bev.errorcb = "file_range_event_cb"
                            -> {file_range_event_cb(e)}
                     [] s.bev.errorcb = "my_block_event_cb"
                            -> {my_block_event_cb(e)}
                     [] s.bev.errorcb = "my_dir_event_cb"
                            -> {my_dir_event_cb(e)}
                     [] OTHER -> {})

\* every state the request reaches when it runs alone
RECURSIVE AloneReach(_, _)
AloneReach(seen, frontier) ==
    IF frontier = {} THEN seen
    ELSE LET next == (UNION {AloneStep(s) : s \in frontier}) \ seen
         IN  AloneReach(seen \cup next, next)

\* the slot r after the step
ViewNext(r) ==
    [req |-> req'[r], pc |-> pc'[r], resp |-> resp'[r], data |-> data'[r],
     bev |-> bev'[r], conn |-> conn'[r], res |-> res'[r],
     stats |-> stats'[r], zipdel |-> zipdel'[r]]

C33_NoFileReadAfterUnref ==
    \A r \in Reqs : conn[r].stale = 0

\* the engines that stream a file or one of its blocks
EngineKindsOfFiles == {"file", "range", "block"}

\* the sizes that the block store reports for the blocks of the file
RECURSIVE SumStored(_, _, _)
SumStored(enc, f, i) ==
    IF i = 0 THEN 0 ELSE StoredSize(enc, f, i) + SumStored(enc, f, i - 1)

\* file_size equals the sum of the block sizes
SizesAgree(r) ==
    req[r].file.file_size
    = SumStored(req[r].encrypted, req[r].file, n_blocks(req[r].file))

\* the block index of an engine state that has one
BlockIndex(d) ==
    IF d.kind = "file" THEN d.idx
    ELSE IF d.kind = "range" THEN d.blk_idx
    ELSE 0

\* C34: for a file whose file_size equals the sum of its block sizes, with
\* fair write-ready ticks, every installed whole-file, byte-range and block
\* engine eventually reaches its terminal event (terminator sent, or
\* connection torn down) with its state released; a tick that does not end
\* the stream writes at least one body byte; the block index never
\* decreases, and it is within 0..n_blocks-1 whenever the block list is
\* indexed (the byte-range engine's index is -1 until its first tick).
C34_EnginesEndAndProgress ==
    /\ \A r \in Reqs :
           (conn[r].engine \in EngineKindsOfFiles /\ SizesAgree(r))
           ~> (pc[r] \in {"finished", "freed"} /\ data[r] = NoData
               /\ conn[r].released = 1)
    /\ [](\A r \in Reqs :
            SizesAgree(r)
            => /\ Pos(conn[r].trace, "past_end") = 0
               /\ (conn[r].engine \in EngineKindsOfFiles
                   /\ pc[r] \in {"finished", "freed"})
                  => data[r] = NoData /\ conn[r].released = 1
               /\ (conn[r].engine \in EngineKindsOfFiles
                   /\ pc[r] = "streaming")
                  => conn[r].pending
               /\ data[r] # NoData
                  => /\ data[r].kind = "file"
                        => data[r].idx \in 0..(n_blocks(req[r].file) - 1)
                     /\ data[r].kind = "range"
                        => data[r].blk_idx \in -1..(n_blocks(req[r].file) - 1)
                     /\ (data[r].kind = "range" /\ data[r].handle # NoHandle)
                        => data[r].blk_idx >= 0)
    /\ [][\A r \in Reqs :
            (SizesAgree(r) /\ conn[r].engine \in EngineKindsOfFiles
             /\ data[r] # NoData /\ data'[r] # NoData)
            => /\ BlockIndex(data'[r]) >= BlockIndex(data[r])
               /\ (pc[r] = "streaming" /\ pc'[r] = "streaming"
                   /\ conn'[r] # conn[r])
                  => Len(resp'[r].body) > Len(resp[r].body)]_vars

\* a byte range that spans two blocks and more than one chunk has been
\* streamed to its terminator and the engine state released
C34_Witness ==
    \E r \in Reqs :
        /\ conn[r].engine = "range" /\ SizesAgree(r)
        /\ n_blocks(req[r].file) = 2
        /\ Finished(r) /\ resp[r].ended
        /\ Len(resp[r].body) > BUFFER_SIZE
        /\ data[r] = NoData /\ conn[r].released = 1

====
